---- MODULE Spec2Model ----
(***************************************************************************)
(* A model of the MPCBench scheduling oracle (src/oracle): the             *)
(* interval/time kernel, the slot resolver, the constraint engine and the  *)
(* tier orchestrators (process_instance at levels 1 and 3).                *)
(*                                                                         *)
(* Time.  An instant is an integer number of minutes.  Wall-clock minute 0 *)
(* is Monday 00:00, so the weekday of a wall-clock minute w is             *)
(* (w \div 1440) % 7 with Monday = 0, as Python's datetime.weekday().      *)
(* A timezone-aware datetime is a record [utc, off]: the instant and the   *)
(* UTC offset of its tzinfo; its wall clock is utc + off.  Python compares *)
(* aware datetimes by instant, and reads .minute and .weekday() from the   *)
(* wall clock of the datetime's own tzinfo.  The zones of the pipeline,    *)
(* the kernel and the filters have a fixed offset (Asia/Seoul, UTC,        *)
(* America/Bogota observe no DST).  America/New_York, whose offset changes *)
(* from -04:00 to -05:00, appears where candidate texts are rendered and   *)
(* read back (ranking and room join on drawn candidates); no arithmetic is *)
(* done on its datetimes.  All timestamps have minute resolution (second = *)
(* microsecond = 0).                                                       *)
(*                                                                         *)
(* Text.  An ISO-8601 string is a record [wall, kind, off]: the wall-clock *)
(* minute it spells, and how it ends: "naive" (no offset), "offset" (a     *)
(* +HH:MM or -HH:MM suffix of off minutes), "Z", or "nosep" for a string   *)
(* without the 'T' date/time separator.                                    *)
(***************************************************************************)
EXTENDS Integers, Sequences, FiniteSets, TLC

VARIABLES
    \* ---- one call of process_instance ----
    level,          \* the tier of the orchestrator: 1 or 3
    world,          \* the world document
    instance,       \* the instance document (its slots dict lives in heap)
    heap,           \* the dict objects: instance["slots"] and the resolver's
    slotsRef,       \* which dict the local `slots` names
    pc,             \* position in process_instance
    person_ids,     \* tier 3: the mapped participant ids
    busy_intervals, free_intervals, base_candidates,
    filtered,       \* the fold variable of apply_constraints
    fold,           \* position of the fold: [phase, i, j]
    room_candidates,
    ret,            \* what process_instance returned or raised
    \* ---- the kernel functions applied to drawn inputs ----
    kpc, kin, kout

pvars == <<level, world, instance, heap, slotsRef, pc, person_ids,
           busy_intervals, free_intervals, base_candidates, filtered, fold,
           room_candidates, ret>>
kvars == <<kpc, kin, kout>>
vars == <<level, world, instance, heap, slotsRef, pc, person_ids,
          busy_intervals, free_intervals, base_candidates, filtered, fold,
          room_candidates, ret, kpc, kin, kout>>

----------------------------------------------------------------------------
(* Bounds of the model                                                     *)

\* busy intervals in a list handed to compute_common_free_windows
MaxBusy == 2
\* the kernel's time points are KBase + KStep * i for i in 0..KMaxT
KMaxT == 3
\* ... and for i in 0..EMaxT for the free windows handed to enumerate_candidates
EMaxT == 6
\* minutes between two time points of the kernel inputs
KStep == 20
\* calendar events per participant in a drawn world
MaxEvents == 1

----------------------------------------------------------------------------
(* Interval/Time kernel: src/oracle/oracle_core.py                         *)

SeqsUpTo(S, n) == UNION {[1..m -> S] : m \in 0..n}

HHMM(hh, mm) == hh * 60 + mm
At(day, hh, mm) == day * 1440 + HHMM(hh, mm)

\* minute 0 is a Monday, 00:00
Mon == 0

\* zoneinfo.ZoneInfo(tz_str): the fixed UTC offset of the zone, in minutes
ZoneInfo(tz_str) ==
    CASE tz_str = "Asia/Seoul" -> 540
      [] tz_str = "UTC" -> 0
      [] tz_str = "America/Bogota" -> -300

\* America/New_York leaves daylight time on a Sunday at 06:00 UTC: the
\* offset is -04:00 before and -05:00 from then on
FallBack == At(Mon + 6, 6, 0)
\* ZoneInfo(tz).utcoffset of an instant
UtcOffset(tz, utc) ==
    IF tz = "America/New_York"
    THEN (IF utc < FallBack THEN -240 ELSE -300)
    ELSE ZoneInfo(tz)
\* ZoneInfo(tz).utcoffset of a wall clock with fold = 0: the hour that
\* comes twice, 01:00 to 02:00, is read as its first pass
WallOffset(tz, wall) ==
    IF tz = "America/New_York"
    THEN (IF wall < FallBack - 240 THEN -240 ELSE -300)
    ELSE ZoneInfo(tz)

Dt(utc, off) == [utc |-> utc, off |-> off]
Wall(dt) == dt.utc + dt.off
Minute(dt) == Wall(dt) % 60
Weekday(dt) == (Wall(dt) \div 1440) % 7
Plus(dt, minutes) == Dt(dt.utc + minutes, dt.off)

\* Python's max(a, b) and min(a, b) on aware datetimes: the first argument
\* unless the second is strictly greater (smaller).
DtMax(a, b) == IF b.utc > a.utc THEN b ELSE a
DtMin(a, b) == IF b.utc < a.utc THEN b ELSE a

NaiveText(wall) == [wall |-> wall, kind |-> "naive", off |-> 0]
OffsetText(wall, off) == [wall |-> wall, kind |-> "offset", off |-> off]
ZText(wall) == [wall |-> wall, kind |-> "Z", off |-> 0]
NoSepText(wall) == [wall |-> wall, kind |-> "nosep", off |-> 0]

\* 'T' in dt_str
HasSeparator(dt_str) == dt_str.kind # "nosep"
\* '+' in dt_str or dt_str.endswith('Z'): a negative offset has no '+'
HasPlusOrZ(dt_str) ==
    \/ dt_str.kind = "Z"
    \/ dt_str.kind = "offset" /\ dt_str.off >= 0

\* parse_datetime raises ValueError
ParseFails(dt_str) == ~HasSeparator(dt_str)

\* parse_datetime(dt_str, tz_str) for a string that parses.  With '+' or
\* 'Z' the string's own offset is kept.  Otherwise fromisoformat's result
\* gets tzinfo REPLACED by the zone: the wall clock is kept and read in
\* tz_str (also when the string carried a negative offset).
parse_datetime(dt_str, tz_str) ==
    IF HasPlusOrZ(dt_str)
    THEN Dt(dt_str.wall - dt_str.off, dt_str.off)
    ELSE Dt(dt_str.wall - WallOffset(tz_str, dt_str.wall),
            WallOffset(tz_str, dt_str.wall))

\* parse_datetime(dt_str) with tz_str = None: UTC is attached
parse_datetime_default(dt_str) == parse_datetime(dt_str, "UTC")

\* to_iso_with_tz(dt, tz_str): rendered in tz_str with an explicit offset
to_iso_with_tz(dt, tz_str) ==
    OffsetText(dt.utc + ZoneInfo(tz_str), ZoneInfo(tz_str))

intervals_overlap_strict(start1, end1, start2, end2) ==
    start1.utc <= end2.utc /\ start2.utc <= end1.utc

\* intervals_overlap: half-open
intervals_overlap(start1, end1, start2, end2) ==
    start1.utc < end2.utc /\ start2.utc < end1.utc

\* build_daily_interval(anchor_dt, start_hhmm, end_hhmm, tz_str); the
\* HH:MM strings are given as minutes of the day
build_daily_interval(anchor_dt, start_hhmm, end_hhmm, tz_str) ==
    LET off == ZoneInfo(tz_str)
        day == ((anchor_dt.utc + off) \div 1440) * 1440
        start_dt == Dt(day + start_hhmm - off, off)
        end_dt == Dt(day + end_hhmm - off, off)
    IN  <<start_dt,
          IF end_dt.utc <= start_dt.utc THEN Plus(end_dt, 1440) ELSE end_dt>>

dt_in_days_of_week(dt, days_of_week) == Weekday(dt) \in days_of_week

BusyStartLess(a, b) == a[1].utc < b[1].utc

\* sorted(xs, key=...) is stable: x goes behind every element whose key is
\* not greater than its own
RECURSIVE InsertBusy(_, _)
InsertBusy(sorted, x) ==
    IF sorted = <<>> THEN <<x>>
    ELSE IF BusyStartLess(x, Head(sorted)) THEN <<x>> \o sorted
    ELSE <<Head(sorted)>> \o InsertBusy(Tail(sorted), x)

\* line 144: sorted(busy, key=lambda x: x[0])
SortBusyUnsorted(busy) == busy
RECURSIVE SortBusy(_)
SortBusy(busy) ==
    IF busy = <<>> THEN <<>>
    ELSE InsertBusy(SortBusy(SubSeq(busy, 1, Len(busy) - 1)), busy[Len(busy)])

\* lines 149-165: the sweep over sorted_busy from index i on, with the
\* gaps found so far and current_start; returns <<free_intervals, current_start>>
RECURSIVE FreeSweep(_, _, _, _, _, _)
FreeSweep(sorted_busy, i, free, current_start, window_start, window_end) ==
    IF i > Len(sorted_busy) THEN <<free, current_start>>
    ELSE
      LET busy_start == sorted_busy[i][1]
          busy_end == sorted_busy[i][2]
      IN  IF busy_end.utc <= window_start.utc
          THEN FreeSweep(sorted_busy, i + 1, free, current_start,
                         window_start, window_end)
          ELSE IF busy_start.utc >= window_end.utc
          THEN <<free, current_start>>
          ELSE
            LET clamped_start == DtMax(busy_start, window_start)
                clamped_end == DtMin(busy_end, window_end)
                free2 == IF current_start.utc < clamped_start.utc
                         THEN Append(free, <<current_start, clamped_start>>)
                         ELSE free
            IN  FreeSweep(sorted_busy, i + 1, free2,
                          DtMax(current_start, clamped_end),
                          window_start, window_end)

\* compute_common_free_windows(busy, window_start, window_end)
compute_common_free_windows(busy, window_start, window_end) ==
    IF busy = <<>> THEN << <<window_start, window_end>> >>
    ELSE
      LET swept == FreeSweep(SortBusy(busy), 1, <<>>, window_start,
                             window_start, window_end)
      IN  IF swept[2].utc < window_end.utc
          THEN Append(swept[1], <<swept[2], window_end>>)
          ELSE swept[1]

\* round_to_grid(dt, grid_minutes): the minute of the hour rounded down
round_to_grid(dt, grid_minutes) ==
    Plus(dt, (Minute(dt) \div grid_minutes) * grid_minutes - Minute(dt))

\* candidate_start left where the free window starts
RoundUpToGridNever(candidate_start, grid_minutes) == candidate_start

\* lines 208-211: round candidate_start up to the next grid point
RoundUpToGrid(candidate_start, grid_minutes) ==
    IF Minute(candidate_start) % grid_minutes # 0
    THEN Plus(candidate_start,
              grid_minutes - (Minute(candidate_start) % grid_minutes))
    ELSE candidate_start

\* line 215: candidate_end = candidate_start + duration_delta
CandidateEndByGrid(candidate_start, duration_min, grid_minutes) ==
    Plus(candidate_start, grid_minutes)
CandidateEnd(candidate_start, duration_min, grid_minutes) ==
    Plus(candidate_start, duration_min)

\* lines 214-224: the while loop of one free interval
RECURSIVE GridLoop(_, _, _, _, _, _, _)
GridLoop(candidate_start, free_end, duration_min, time_window_start, time_window_end, tz_str, grid_minutes) ==
    IF ~(candidate_start.utc < free_end.utc) THEN <<>>
    ELSE
      LET candidate_end == CandidateEnd(candidate_start, duration_min, grid_minutes)
          rest == GridLoop(Plus(candidate_start, grid_minutes), free_end,
                           duration_min, time_window_start, time_window_end,
                           tz_str, grid_minutes)
      IN  IF /\ candidate_end.utc <= free_end.utc
             /\ candidate_start.utc >= time_window_start.utc
             /\ candidate_end.utc <= time_window_end.utc
          THEN <<[start |-> to_iso_with_tz(candidate_start, tz_str),
                  end |-> to_iso_with_tz(candidate_end, tz_str)]>> \o rest
          ELSE rest

\* enumerate_candidates(free_intervals, duration_min, time_window_start,
\*                      time_window_end, tz_str, grid_minutes)
RECURSIVE enumerate_candidates(_, _, _, _, _, _)
enumerate_candidates(free, duration_min, time_window_start, time_window_end, tz_str, grid_minutes) ==
    IF free = <<>> THEN <<>>
    ELSE
      LET window_start_rounded == round_to_grid(time_window_start, grid_minutes)
          free_start == Head(free)[1]
          free_end == Head(free)[2]
          candidate_start ==
              RoundUpToGrid(DtMax(free_start, window_start_rounded), grid_minutes)
      IN  GridLoop(candidate_start, free_end, duration_min, time_window_start,
                   time_window_end, tz_str, grid_minutes)
          \o enumerate_candidates(Tail(free), duration_min, time_window_start,
                                  time_window_end, tz_str, grid_minutes)

\* sort_candidates' key (start_dt, end_dt, candidate["start"]), the
\* datetimes parsed without a zone; strings of one format compare by their
\* wall clock, then by their offset suffix
OffsetRank(t) == IF t.off >= 0 THEN t.off ELSE 100000 - t.off
TextLess(a, b) ==
    \/ a.wall < b.wall
    \/ a.wall = b.wall /\ OffsetRank(a) < OffsetRank(b)

CandidateKeyLess(a, b) ==
    LET sa == parse_datetime_default(a.start).utc
        sb == parse_datetime_default(b.start).utc
        ea == parse_datetime_default(a.end).utc
        eb == parse_datetime_default(b.end).utc
    IN  \/ sa < sb
        \/ sa = sb /\ ea < eb
        \/ sa = sb /\ ea = eb /\ TextLess(a.start, b.start)

RECURSIVE InsertCandidate(_, _)
InsertCandidate(sorted, x) ==
    IF sorted = <<>> THEN <<x>>
    ELSE IF CandidateKeyLess(x, Head(sorted)) THEN <<x>> \o sorted
    ELSE <<Head(sorted)>> \o InsertCandidate(Tail(sorted), x)

\* sort_candidates(candidates)
RECURSIVE sort_candidates(_)
sort_candidates(candidates) ==
    IF candidates = <<>> THEN <<>>
    ELSE InsertCandidate(
             sort_candidates(SubSeq(candidates, 1, Len(candidates) - 1)),
             candidates[Len(candidates)])

\* Python's xs[:n]: a negative n counts from the end
Slice(xs, n) ==
    IF n >= 0
    THEN SubSeq(xs, 1, IF n < Len(xs) THEN n ELSE Len(xs))
    ELSE SubSeq(xs, 1, IF Len(xs) + n > 0 THEN Len(xs) + n ELSE 0)

\* select_top_n(candidates, n); the variant forgets the [:n] of line 258
select_top_n_all(candidates, n) == sort_candidates(candidates)
select_top_n(candidates, n) == Slice(sort_candidates(candidates), n)

----------------------------------------------------------------------------
(* Slot resolver: src/oracle/slot_resolver.py                              *)

\* the value of a key the dict does not have (slots.get("policy_id") is None)
NoKey == "<no key>"

\* resolve_slots raises: at tiers 2 and 3 ValueError when policy_id is missing
\* or empty (`not policy_id`), at tier 1 KeyError when it is missing
ResolveFailsOnNoKey(lvl, inst_slots) == inst_slots.policy_id = NoKey
ResolveFails(lvl, inst_slots) ==
    \/ lvl \in {2, 3} /\ inst_slots.policy_id \in {NoKey, ""}
    \/ lvl = 1 /\ inst_slots.policy_id = NoKey
ResolveError(lvl) == IF lvl = 1 THEN "KeyError" ELSE "MissingPolicyId"

\* resolve_slots copying num_options at tier 3 as tiers 1 and 2 do (line 45
\* in place of line 63)
resolve_slots_copying(lvl, inst_slots) ==
    [participants |-> inst_slots.participants,
     time_window |-> inst_slots.time_window,
     duration_min |-> inst_slots.duration_min,
     num_options |-> inst_slots.num_options,
     policy_id |-> inst_slots.policy_id]

\* the dict resolve_slots builds from instance["slots"]
resolve_slots(lvl, inst_slots) ==
    [participants |-> inst_slots.participants,
     time_window |-> inst_slots.time_window,
     duration_min |-> inst_slots.duration_min,
     num_options |-> IF lvl = 3 THEN 3 ELSE inst_slots.num_options,
     policy_id |-> inst_slots.policy_id]

\* The dict objects after resolve_slots returned: the result is a new dict
\* ("rslots"); instance["slots"] ("islots") is only read.
ResolveInPlace(lvl, h) ==
    [ref |-> "islots",
     heap |-> [h EXCEPT !["islots"] = resolve_slots(lvl, h["islots"])]]
ResolveInto(lvl, h) ==
    [ref |-> "rslots",
     heap |-> h @@ ("rslots" :> resolve_slots(lvl, h["islots"]))]

----------------------------------------------------------------------------
(* Constraint engine: src/oracle/constraints.py                            *)

\* a rule of a policy; the fields a rule type does not read are defaults
Rule(type, start, end, has_dow, days_of_week, minutes, day_of_week) ==
    [type |-> type, start |-> start, end |-> end, has_dow |-> has_dow,
     days_of_week |-> days_of_week, minutes |-> minutes,
     day_of_week |-> day_of_week]
WorkHours(start, end) == Rule("work_hours", start, end, FALSE, {}, 0, 0)
LunchBlock(start, end) == Rule("lunch_block", start, end, FALSE, {}, 0, 0)
BufferMin(minutes) == Rule("buffer_min", 0, 0, FALSE, {}, minutes, 0)
BanDowTime(day_of_week, start, end) ==
    Rule("ban_dow_time", start, end, FALSE, {}, 0, day_of_week)
UnknownRule == Rule("holiday", 0, 0, FALSE, {}, 0, 0)

KnownRuleTypes == {"work_hours", "lunch_block", "buffer_min", "ban_dow_time"}

\* filter_work_hours reading days_of_week as an exemption: a candidate on a
\* weekday outside the set is kept instead of skipped (line 87)
filter_work_hours_exempting(candidates, rule, tz_str) ==
    LET Keep(candidate) ==
            LET start_dt == parse_datetime(candidate.start, tz_str)
                end_dt == parse_datetime(candidate.end, tz_str)
                work == build_daily_interval(start_dt, rule.start, rule.end, tz_str)
            IN  \/ rule.has_dow /\ ~dt_in_days_of_week(start_dt, rule.days_of_week)
                \/ start_dt.utc >= work[1].utc /\ end_dt.utc <= work[2].utc
    IN  SelectSeq(candidates, Keep)

\* filter_work_hours(candidates, rule, tz_str)
filter_work_hours(candidates, rule, tz_str) ==
    LET Keep(candidate) ==
            LET start_dt == parse_datetime(candidate.start, tz_str)
                end_dt == parse_datetime(candidate.end, tz_str)
                work == build_daily_interval(start_dt, rule.start, rule.end, tz_str)
            IN  /\ rule.has_dow => dt_in_days_of_week(start_dt, rule.days_of_week)
                /\ start_dt.utc >= work[1].utc
                /\ end_dt.utc <= work[2].utc
    IN  SelectSeq(candidates, Keep)

\* filter_lunch_block skipping (line 114-116) a candidate on a weekday
\* outside the set instead of appending it
filter_lunch_block_scoped(candidates, rule, tz_str) ==
    LET Keep(candidate) ==
            LET start_dt == parse_datetime(candidate.start, tz_str)
                end_dt == parse_datetime(candidate.end, tz_str)
                lunch == build_daily_interval(start_dt, rule.start, rule.end, tz_str)
            IN  /\ rule.has_dow => dt_in_days_of_week(start_dt, rule.days_of_week)
                /\ ~intervals_overlap(start_dt, end_dt, lunch[1], lunch[2])
    IN  SelectSeq(candidates, Keep)

\* filter_lunch_block without the `continue` of line 116: a candidate on a
\* weekday outside the rule's set is appended, and then checked and appended
\* again
RECURSIVE filter_lunch_block_no_continue(_, _, _)
filter_lunch_block_no_continue(candidates, rule, tz_str) ==
    IF candidates = <<>> THEN <<>>
    ELSE
      LET candidate == Head(candidates)
          start_dt == parse_datetime(candidate.start, tz_str)
          end_dt == parse_datetime(candidate.end, tz_str)
          lunch == build_daily_interval(start_dt, rule.start, rule.end, tz_str)
      IN  (IF rule.has_dow /\ ~dt_in_days_of_week(start_dt, rule.days_of_week)
           THEN <<candidate>> ELSE <<>>)
          \o (IF intervals_overlap(start_dt, end_dt, lunch[1], lunch[2])
              THEN <<>> ELSE <<candidate>>)
          \o filter_lunch_block_no_continue(Tail(candidates), rule, tz_str)

\* filter_lunch_block(candidates, rule, tz_str)
filter_lunch_block(candidates, rule, tz_str) ==
    LET Keep(candidate) ==
            LET start_dt == parse_datetime(candidate.start, tz_str)
                end_dt == parse_datetime(candidate.end, tz_str)
                lunch == build_daily_interval(start_dt, rule.start, rule.end, tz_str)
            IN  \/ rule.has_dow /\ ~dt_in_days_of_week(start_dt, rule.days_of_week)
                \/ ~intervals_overlap(start_dt, end_dt, lunch[1], lunch[2])
    IN  SelectSeq(candidates, Keep)

\* the events of the participants that have a calendar, in order
RECURSIVE CalendarEvents(_, _)
CalendarEvents(calendar_json, participants) ==
    IF participants = <<>> THEN <<>>
    ELSE (IF Head(participants) \in DOMAIN calendar_json
          THEN calendar_json[Head(participants)] ELSE <<>>)
         \o CalendarEvents(calendar_json, Tail(participants))

EventsFail(events) ==
    \E i \in 1..Len(events) :
        ParseFails(events[i].start) \/ ParseFails(events[i].end)

ParsedEvents(events, tz_str) ==
    [i \in 1..Len(events) |->
        <<parse_datetime(events[i].start, tz_str),
          parse_datetime(events[i].end, tz_str)>>]

\* filter_buffer_min without the expansion of lines 153-154
filter_buffer_min_unexpanded(candidates, rule, wld, slots) ==
    LET tz_str == wld.timezone
        busy == ParsedEvents(
                    CalendarEvents(wld.sources.calendar_json, slots.participants),
                    tz_str)
        Keep(candidate) ==
            LET candidate_start == parse_datetime(candidate.start, tz_str)
                candidate_end == parse_datetime(candidate.end, tz_str)
            IN  ~\E i \in 1..Len(busy) :
                    intervals_overlap(candidate_start, candidate_end,
                                      busy[i][1], busy[i][2])
    IN  SelectSeq(candidates, Keep)

\* filter_buffer_min(candidates, rule, world, slots)
filter_buffer_min(candidates, rule, wld, slots) ==
    LET tz_str == wld.timezone
        busy == ParsedEvents(
                    CalendarEvents(wld.sources.calendar_json, slots.participants),
                    tz_str)
        Keep(candidate) ==
            LET candidate_start == parse_datetime(candidate.start, tz_str)
                candidate_end == parse_datetime(candidate.end, tz_str)
            IN  ~\E i \in 1..Len(busy) :
                    intervals_overlap(candidate_start, candidate_end,
                                      Plus(busy[i][1], -rule.minutes),
                                      Plus(busy[i][2], rule.minutes))
    IN  SelectSeq(candidates, Keep)

\* filter_ban_dow_time(candidates, rule, tz_str)
filter_ban_dow_time(candidates, rule, tz_str) ==
    LET Keep(candidate) ==
            LET start_dt == parse_datetime(candidate.start, tz_str)
                end_dt == parse_datetime(candidate.end, tz_str)
                ban == build_daily_interval(start_dt, rule.start, rule.end, tz_str)
            IN  ~(/\ Weekday(start_dt) = rule.day_of_week
                  /\ intervals_overlap(start_dt, end_dt, ban[1], ban[2]))
    IN  SelectSeq(candidates, Keep)

\* filter_deadline comparing the candidate's end with the deadline
filter_deadline_by_end(candidates, deadline_str, tz_str) ==
    LET deadline_dt == parse_datetime(deadline_str, tz_str)
        Keep(candidate) ==
            parse_datetime(candidate.end, tz_str).utc <= deadline_dt.utc
    IN  SelectSeq(candidates, Keep)

\* filter_deadline(candidates, deadline_str, tz_str)
filter_deadline(candidates, deadline_str, tz_str) ==
    LET deadline_dt == parse_datetime(deadline_str, tz_str)
        Keep(candidate) ==
            parse_datetime(candidate.start, tz_str).utc <= deadline_dt.utc
    IN  SelectSeq(candidates, Keep)

\* filter_ban_windows looking at the first ban window only
filter_ban_windows_first(candidates, ban_windows, tz_str) ==
    LET ban_intervals == ParsedEvents(ban_windows, tz_str)
        Keep(candidate) ==
            LET candidate_start == parse_datetime(candidate.start, tz_str)
                candidate_end == parse_datetime(candidate.end, tz_str)
            IN  ~(/\ ban_intervals # <<>>
                  /\ intervals_overlap(candidate_start, candidate_end,
                                       ban_intervals[1][1], ban_intervals[1][2]))
    IN  SelectSeq(candidates, Keep)

\* filter_ban_windows(candidates, ban_windows, tz_str)
filter_ban_windows(candidates, ban_windows, tz_str) ==
    LET ban_intervals == ParsedEvents(ban_windows, tz_str)
        Keep(candidate) ==
            LET candidate_start == parse_datetime(candidate.start, tz_str)
                candidate_end == parse_datetime(candidate.end, tz_str)
            IN  ~\E i \in 1..Len(ban_intervals) :
                    intervals_overlap(candidate_start, candidate_end,
                                      ban_intervals[i][1], ban_intervals[i][2])
    IN  SelectSeq(candidates, Keep)

\* filter_required_windows demanding containment in every window
filter_required_windows_all(candidates, required_windows, tz_str) ==
    LET required_intervals == ParsedEvents(required_windows, tz_str)
        Keep(candidate) ==
            LET candidate_start == parse_datetime(candidate.start, tz_str)
                candidate_end == parse_datetime(candidate.end, tz_str)
            IN  \A i \in 1..Len(required_intervals) :
                    /\ candidate_start.utc >= required_intervals[i][1].utc
                    /\ candidate_end.utc <= required_intervals[i][2].utc
    IN  SelectSeq(candidates, Keep)

\* filter_required_windows(candidates, required_windows, tz_str)
filter_required_windows(candidates, required_windows, tz_str) ==
    LET required_intervals == ParsedEvents(required_windows, tz_str)
        Keep(candidate) ==
            LET candidate_start == parse_datetime(candidate.start, tz_str)
                candidate_end == parse_datetime(candidate.end, tz_str)
            IN  \E i \in 1..Len(required_intervals) :
                    /\ candidate_start.utc >= required_intervals[i][1].utc
                    /\ candidate_end.utc <= required_intervals[i][2].utc
    IN  SelectSeq(candidates, Keep)

\* one iteration of the loop over policy_rules (lines 55-67, 225-237 and
\* 361-373): the dispatch on rule["type"] for a known type
ApplyRule(candidates, rule, wld, slots) ==
    CASE rule.type = "work_hours" ->
            filter_work_hours(candidates, rule, wld.timezone)
      [] rule.type = "lunch_block" ->
            filter_lunch_block(candidates, rule, wld.timezone)
      [] rule.type = "buffer_min" ->
            filter_buffer_min(candidates, rule, wld, slots)
      [] rule.type = "ban_dow_time" ->
            filter_ban_dow_time(candidates, rule, wld.timezone)

\* a constraint bundle (comm_tags, thread_tags): which keys it has
Tags(has_deadline, deadline, has_ban, ban_windows, has_required, required_windows, has_sort_spec, sort_keys) ==
    [has_deadline |-> has_deadline, deadline |-> deadline,
     has_ban |-> has_ban, ban_windows |-> ban_windows,
     has_required |-> has_required, required_windows |-> required_windows,
     has_sort_spec |-> has_sort_spec, sort_keys |-> sort_keys]

\* the j-th of the three evidence filters of one bundle (deadline, ban_windows,
\* required_windows), skipped when the bundle has no such key
ApplyTag(candidates, tags, j, tz_str) ==
    CASE j = 1 -> IF tags.has_deadline
                  THEN filter_deadline(candidates, tags.deadline, tz_str)
                  ELSE candidates
      [] j = 2 -> IF tags.has_ban
                  THEN filter_ban_windows(candidates, tags.ban_windows, tz_str)
                  ELSE candidates
      [] j = 3 -> IF tags.has_required
                  THEN filter_required_windows(candidates,
                                               tags.required_windows, tz_str)
                  ELSE candidates

\* parse_datetime raises inside the j-th evidence filter
TagFails(tags, j) ==
    CASE j = 1 -> tags.has_deadline /\ ParseFails(tags.deadline)
      [] j = 2 -> tags.has_ban /\ EventsFail(tags.ban_windows)
      [] j = 3 -> tags.has_required /\ EventsFail(tags.required_windows)

----------------------------------------------------------------------------
(* Tier 3: src/oracle/level3_oracle.py                                     *)

\* participant.startswith("person_")
StartsWithPerson(participant) ==
    participant \in {"person_a", "person_b", "person_x"}

\* name_to_id, built row by row: a later row of the same name wins
RECURSIVE NameToId(_, _)
NameToId(rows, name) ==
    IF rows = <<>> THEN ""
    ELSE IF rows[Len(rows)].person_name = name THEN rows[Len(rows)].person_id
    ELSE NameToId(SubSeq(rows, 1, Len(rows) - 1), name)

NameKnown(rows, name) == \E i \in 1..Len(rows) : rows[i].person_name = name

\* map_participant_names_to_ids raises for a name that is not in the table
MapFails(people_table, participants) ==
    \E i \in 1..Len(participants) :
        /\ ~StartsWithPerson(participants[i])
        /\ ~NameKnown(people_table, participants[i])

\* map_participant_names_to_ids(world, participants, instance_id)
map_participant_names_to_ids(people_table, participants) ==
    [i \in 1..Len(participants) |->
        IF StartsWithPerson(participants[i]) THEN participants[i]
        ELSE NameToId(people_table, participants[i])]

\* filter_rooms_by_capacity raises for a room without a capacity
RoomsFail(rooms_table) ==
    \E i \in 1..Len(rooms_table) : ~rooms_table[i].has_capacity

\* filter_rooms_by_capacity(world, min_capacity, instance_id)
filter_rooms_by_capacity(rooms_table, min_capacity) ==
    LET Fits(room) == room.capacity >= min_capacity
        fitting == SelectSeq(rooms_table, Fits)
    IN  [i \in 1..Len(fitting) |-> fitting[i].room_id]

RoomEvents(room_availability, room_id) ==
    IF room_id \in DOMAIN room_availability
    THEN room_availability[room_id] ELSE <<>>

\* join_room_availability parses the events of every valid room once per
\* candidate: it raises when there is a candidate and a malformed event
JoinFails(room_availability, candidates, valid_room_ids) ==
    /\ candidates # <<>>
    /\ \E i \in 1..Len(valid_room_ids) :
           EventsFail(RoomEvents(room_availability, valid_room_ids[i]))

RoomFree(room_availability, candidate, room_id, tz_str) ==
    LET candidate_start == parse_datetime(candidate.start, tz_str)
        candidate_end == parse_datetime(candidate.end, tz_str)
        room_busy == ParsedEvents(RoomEvents(room_availability, room_id), tz_str)
    IN  ~\E i \in 1..Len(room_busy) :
            intervals_overlap(candidate_start, candidate_end,
                              room_busy[i][1], room_busy[i][2])

\* the rooms loop with a `break` after the first free room
RECURSIVE JoinRoomsFirst(_, _, _, _)
JoinRoomsFirst(room_availability, candidate, valid_room_ids, tz_str) ==
    IF valid_room_ids = <<>> THEN <<>>
    ELSE IF RoomFree(room_availability, candidate, Head(valid_room_ids), tz_str)
    THEN <<[start |-> candidate.start, end |-> candidate.end,
            room_id |-> Head(valid_room_ids)]>>
    ELSE JoinRoomsFirst(room_availability, candidate, Tail(valid_room_ids), tz_str)

\* lines 207-229: the rooms loop of one candidate
RECURSIVE JoinRooms(_, _, _, _)
JoinRooms(room_availability, candidate, valid_room_ids, tz_str) ==
    IF valid_room_ids = <<>> THEN <<>>
    ELSE (IF RoomFree(room_availability, candidate, Head(valid_room_ids), tz_str)
          THEN <<[start |-> candidate.start, end |-> candidate.end,
                  room_id |-> Head(valid_room_ids)]>>
          ELSE <<>>)
         \o JoinRooms(room_availability, candidate, Tail(valid_room_ids), tz_str)

\* join_room_availability(world, candidates, valid_room_ids, tz_str, instance_id)
RECURSIVE join_room_availability(_, _, _, _)
join_room_availability(room_availability, candidates, valid_room_ids, tz_str) ==
    IF candidates = <<>> THEN <<>>
    ELSE JoinRooms(room_availability, Head(candidates), valid_room_ids, tz_str)
         \o join_room_availability(room_availability, Tail(candidates),
                                   valid_room_ids, tz_str)

DefaultSortKeys == <<"start", "end", "room_id">>

\* get_sort_spec(instance, instance_id): the keys of the first thread that
\* declares a sort_spec
RECURSIVE FirstSortSpec(_)
FirstSortSpec(comm_threads) ==
    IF comm_threads = <<>> THEN DefaultSortKeys
    ELSE IF Head(comm_threads).has_tags /\ Head(comm_threads).thread_tags.has_sort_spec
    THEN Head(comm_threads).thread_tags.sort_keys
    ELSE FirstSortSpec(Tail(comm_threads))

get_sort_spec(inst) ==
    IF ~inst.has_sources \/ ~inst.sources.has_comm_threads
    THEN DefaultSortKeys
    ELSE FirstSortSpec(inst.sources.comm_threads)

\* the order of room ids as strings
RoomRank(room_id) ==
    CASE room_id = "room_1" -> 1
      [] room_id = "room_2" -> 2
      [] room_id = "room_3" -> 3
      [] OTHER -> 0

\* comparison of the key parts of two triples for one key of the sort spec:
\* -1, 0 or 1
CmpInt(x, y) == IF x < y THEN -1 ELSE IF x > y THEN 1 ELSE 0
CmpText(a, b) == IF TextLess(a, b) THEN -1 ELSE IF TextLess(b, a) THEN 1 ELSE 0
CmpKey(key, a, b, tz_str) ==
    CASE key = "start" -> CmpInt(parse_datetime(a.start, tz_str).utc,
                                 parse_datetime(b.start, tz_str).utc)
      [] key = "end" -> CmpInt(parse_datetime(a.end, tz_str).utc,
                               parse_datetime(b.end, tz_str).utc)
      [] key = "room_id" -> CmpInt(RoomRank(a.room_id), RoomRank(b.room_id))
      [] OTHER -> 0

\* the tie-break (start, end, room_id) compared as strings
CmpTie(a, b) ==
    IF CmpText(a.start, b.start) # 0 THEN CmpText(a.start, b.start)
    ELSE IF CmpText(a.end, b.end) # 0 THEN CmpText(a.end, b.end)
    ELSE CmpInt(RoomRank(a.room_id), RoomRank(b.room_id))

RECURSIVE CmpKeys(_, _, _, _)
CmpKeys(sort_keys, a, b, tz_str) ==
    IF sort_keys = <<>> THEN CmpTie(a, b)
    ELSE IF CmpKey(Head(sort_keys), a, b, tz_str) # 0
    THEN CmpKey(Head(sort_keys), a, b, tz_str)
    ELSE CmpKeys(Tail(sort_keys), a, b, tz_str)

RECURSIVE InsertTriple(_, _, _, _)
InsertTriple(sorted, x, sort_keys, tz_str) ==
    IF sorted = <<>> THEN <<x>>
    ELSE IF CmpKeys(sort_keys, x, Head(sorted), tz_str) < 0 THEN <<x>> \o sorted
    ELSE <<Head(sorted)>> \o InsertTriple(Tail(sorted), x, sort_keys, tz_str)

\* the triples left in the order the join produced them
sort_candidates_level3_unsorted(candidates, sort_keys, tz_str) == candidates

\* sort_candidates_level3(candidates, sort_keys, tz_str)
RECURSIVE sort_candidates_level3(_, _, _)
sort_candidates_level3(candidates, sort_keys, tz_str) ==
    IF candidates = <<>> THEN <<>>
    ELSE InsertTriple(
             sort_candidates_level3(SubSeq(candidates, 1, Len(candidates) - 1),
                                    sort_keys, tz_str),
             candidates[Len(candidates)], sort_keys, tz_str)

----------------------------------------------------------------------------
(* The inputs of process_instance: worlds and instances                    *)

Levels == {1, 2, 3}

Event(start, end) == [start |-> start, end |-> end]

\* the policy table of the world: policy_json at tier 1, policy_tags at
\* tiers 2 and 3
PolicyTable ==
    ("P_STD" :> <<WorkHours(HHMM(9, 0), HHMM(18, 0)),
                  LunchBlock(HHMM(12, 0), HHMM(13, 0))>>)
    @@ ("P_BUF" :> <<BufferMin(15), BanDowTime(Mon, HHMM(9, 0), HHMM(9, 30))>>)
    @@ ("P_WEEK" :> <<Rule("work_hours", HHMM(9, 0), HHMM(18, 0), TRUE,
                           {0, 1, 2, 3, 4}, 0, 0),
                      Rule("lunch_block", HHMM(9, 30), HHMM(10, 0), TRUE,
                           {1, 2, 3, 4}, 0, 0)>>)
    @@ ("P_BAD" :> <<WorkHours(HHMM(9, 0), HHMM(18, 0)), UnknownRule>>)
    @@ ("P_BAD_FIRST" :> <<UnknownRule, LunchBlock(HHMM(12, 0), HHMM(13, 0))>>)
PolicyIds ==
    {"P_STD", "P_BUF", "P_WEEK", "P_BAD", "P_BAD_FIRST", "P_GONE", "", NoKey}

\* calendar events: A's 10:00-11:00 of the end-to-end example, an event
\* written with an offset and off the grid, and one with a malformed start
EventPool ==
    {Event(NaiveText(At(Mon, 10, 0)), NaiveText(At(Mon, 11, 0))),
     Event(OffsetText(At(Mon, 9, 20), 540), OffsetText(At(Mon, 9, 50), 540)),
     Event(NoSepText(At(Mon, 9, 0)), NaiveText(At(Mon, 9, 30)))}
Calendars ==
    {("person_a" :> ev) @@ ("person_b" :> <<>>) : ev \in SeqsUpTo(EventPool, MaxEvents)}

PeopleTable ==
    <<[person_name |-> "Alice", person_id |-> "person_a"],
      [person_name |-> "Bob", person_id |-> "person_b"]>>
RoomsTable ==
    <<[room_id |-> "room_1", has_capacity |-> TRUE, capacity |-> 1],
      [room_id |-> "room_3", has_capacity |-> TRUE, capacity |-> 8],
      [room_id |-> "room_2", has_capacity |-> TRUE, capacity |-> 4]>>
RoomAvailabilities ==
    {("room_2" :> <<>>),
     ("room_2" :> <<Event(NaiveText(At(Mon, 9, 0)), NaiveText(At(Mon, 10, 0)))>>)
        @@ ("room_3" :> <<Event(NaiveText(At(Mon, 9, 30)), NaiveText(At(Mon, 13, 0)))>>),
     ("room_3" :> <<Event(NoSepText(At(Mon, 9, 0)), NaiveText(At(Mon, 10, 0)))>>)}

World(tz, calendar_json, room_availability_json) ==
    [timezone |-> tz,
     sources |-> [calendar_json |-> calendar_json,
                  policy |-> PolicyTable,
                  people_table |-> PeopleTable,
                  rooms_table |-> RoomsTable,
                  room_availability_json |-> room_availability_json]]

NoTags == Tags(FALSE, NaiveText(0), FALSE, <<>>, FALSE, <<>>, FALSE, <<>>)
\* deadline 11:00, ban 09:00-09:30, required 09:00-10:00 or 11:00-13:30
SomeTags ==
    Tags(TRUE, NaiveText(At(Mon, 11, 0)),
         TRUE, <<Event(NaiveText(At(Mon, 9, 0)), NaiveText(At(Mon, 9, 30)))>>,
         TRUE, <<Event(NaiveText(At(Mon, 9, 0)), NaiveText(At(Mon, 10, 0))),
                 Event(NaiveText(At(Mon, 11, 0)), NaiveText(At(Mon, 13, 30)))>>,
         FALSE, <<>>)
BadTags ==
    Tags(FALSE, NaiveText(0),
         TRUE, <<Event(NaiveText(At(Mon, 9, 0)), NoSepText(At(Mon, 9, 30)))>>,
         FALSE, <<>>, FALSE, <<>>)
SortTags ==
    Tags(FALSE, NaiveText(0), FALSE, <<>>,
         TRUE, <<Event(NaiveText(At(Mon, 9, 0)), NaiveText(At(Mon, 12, 0)))>>,
         TRUE, <<"room_id", "start">>)

Thread(thread_id, has_tags, thread_tags) ==
    [thread_id |-> thread_id, has_tags |-> has_tags, thread_tags |-> thread_tags]

Sources(has_sources, has_comm_tags, comm_tags, has_comm_threads, comm_threads) ==
    [has_sources |-> has_sources,
     sources |-> [has_comm_tags |-> has_comm_tags, comm_tags |-> comm_tags,
                  has_comm_threads |-> has_comm_threads,
                  comm_threads |-> comm_threads]]

\* instance.sources per tier: tier 1 has none, tier 2 a comm_tags bundle,
\* tier 3 a list of comm_threads
SourcesOf(lvl) ==
    CASE lvl = 1 -> {Sources(FALSE, FALSE, NoTags, FALSE, <<>>)}
      [] lvl = 2 -> {Sources(TRUE, TRUE, NoTags, FALSE, <<>>),
                     Sources(TRUE, TRUE, SomeTags, FALSE, <<>>),
                     Sources(TRUE, TRUE, BadTags, FALSE, <<>>),
                     Sources(TRUE, FALSE, NoTags, FALSE, <<>>)}
      [] lvl = 3 -> {Sources(TRUE, FALSE, NoTags, FALSE, <<>>),
                     Sources(TRUE, FALSE, NoTags, TRUE,
                             <<Thread("t1", TRUE, SomeTags)>>),
                     Sources(TRUE, FALSE, NoTags, TRUE,
                             <<Thread("t1", FALSE, NoTags),
                               Thread("t2", TRUE, SortTags)>>),
                     Sources(TRUE, FALSE, NoTags, TRUE,
                             <<Thread("t1", TRUE, SomeTags),
                               Thread("t2", TRUE, SortTags)>>)}

ParticipantsOf(lvl) ==
    IF lvl = 3
    THEN {<<"Alice", "person_b">>, <<"Alice", "Zed">>, <<"person_b", "person_x">>}
    ELSE {<<"person_a", "person_b">>, <<"person_b", "person_x">>}

ZonesOf(lvl) == IF lvl = 1 THEN {"Asia/Seoul", "America/Bogota"} ELSE {"Asia/Seoul"}
DurationsOf(lvl) == IF lvl = 3 THEN {30} ELSE {30, 60}
NumOptionsOf(lvl) == IF lvl = 3 THEN {-1, 1, 3, 20} ELSE {-1, 0, 1, 3, 20}
AvailabilitiesOf(lvl) == IF lvl = 3 THEN RoomAvailabilities ELSE {("room_2" :> <<>>)}

TimeWindows ==
    {Event(NaiveText(At(Mon, 9, 0)), NaiveText(At(Mon, 14, 0))),
     Event(NaiveText(At(Mon, 9, 10)), NaiveText(At(Mon, 10, 30)))}

Slots(participants, time_window, duration_min, num_options, policy_id) ==
    [participants |-> participants, time_window |-> time_window,
     duration_min |-> duration_min, num_options |-> num_options,
     policy_id |-> policy_id]

Instance(instance_id, src) ==
    [instance_id |-> instance_id, has_sources |-> src.has_sources,
     sources |-> src.sources]

NoMeta ==
    [num_generated |-> 0, num_after_constraints |-> 0,
     num_after_room_join |-> 0, num_options |-> 0]
NoResult ==
    [instance_id |-> "", feasible_candidates |-> <<>>,
     explanation_keys |-> <<>>, meta |-> NoMeta]
Ret(kind, result, debug_info, discarded, error) ==
    [kind |-> kind, result |-> result, debug_info |-> debug_info,
     discarded |-> discarded, error |-> error]
Raise(error) == Ret("error", NoResult, NoMeta, FALSE, error)

PInit ==
    \E lvl \in Levels :
    \E tz \in ZonesOf(lvl), cal \in Calendars, avail \in AvailabilitiesOf(lvl),
       parts \in ParticipantsOf(lvl), tw \in TimeWindows,
       dur \in DurationsOf(lvl), n \in NumOptionsOf(lvl),
       pol \in PolicyIds, src \in SourcesOf(lvl) :
        /\ level = lvl
        /\ world = World(tz, cal, avail)
        /\ instance = Instance("inst_0", src)
        /\ heap = ("islots" :> Slots(parts, tw, dur, n, pol))
        /\ slotsRef = "none"
        /\ pc = "resolve"
        /\ person_ids = <<>>
        /\ busy_intervals = <<>> /\ free_intervals = <<>>
        /\ base_candidates = <<>> /\ filtered = <<>>
        /\ fold = [phase |-> "none", i |-> 0, j |-> 0]
        /\ room_candidates = <<>>
        /\ ret = Ret("none", NoResult, NoMeta, FALSE, "")

----------------------------------------------------------------------------
(* The kernel functions applied to drawn inputs                            *)

\* the zone the kernel inputs are drawn in
KTz == "Asia/Seoul"
\* Monday 09:00
KBase == At(0, 9, 0)
KPoint(i) == Dt(KBase + KStep * i - ZoneInfo(KTz), ZoneInfo(KTz))
KPts == {KPoint(i) : i \in 0..KMaxT}
EPts == {KPoint(i) : i \in 0..EMaxT}
\* grid_minutes: the orchestrators pass 15
Grids == {15, 20, 45}
KDurations == {30, 60}

KNone == KPoint(0)
KProblem(prob, busy, ws, we, free, grid, dur, pts) ==
    [prob |-> prob, busy |-> busy, ws |-> ws, we |-> we, free |-> free,
     grid |-> grid, dur |-> dur, pts |-> pts]

\* busy intervals have start <= end; windows are any two points
FreeProblems ==
    {KProblem("free", busy, ws, we, <<>>, 15, 30, <<>>) :
        busy \in SeqsUpTo({<<s, e>> : s \in KPts, e \in KPts} \cap
                          {iv \in KPts \X KPts : iv[1].utc <= iv[2].utc}, MaxBusy),
        ws \in KPts, we \in KPts}

EWindows == {iv \in EPts \X EPts : iv[1].utc < iv[2].utc}
EnumProblems ==
    {KProblem("enum", <<>>, w[1], w[2], <<f>>, grid, dur, <<>>) :
        w \in {<<KPoint(0), KPoint(EMaxT)>>, <<KPoint(1), KPoint(EMaxT - 1)>>},
        f \in EWindows, grid \in Grids, dur \in KDurations}

OverlapProblems ==
    {KProblem("overlap", <<>>, KNone, KNone, <<>>, 15, 30, pts) :
        pts \in KPts \X KPts \X KPts \X KPts}

\* calendars, participants and time windows for the base enumeration:
\* events on and off the grid, with an offset, of no length, and malformed
BZones == {"Asia/Seoul", "America/Bogota"}
BEventPool ==
    {Event(NaiveText(At(Mon, 10, 0)), NaiveText(At(Mon, 11, 0))),
     Event(NaiveText(At(Mon, 9, 20)), NaiveText(At(Mon, 9, 50))),
     Event(OffsetText(At(Mon, 9, 40), 540), OffsetText(At(Mon, 10, 10), 540)),
     Event(ZText(At(Mon, 14, 30)), ZText(At(Mon, 15, 10))),
     Event(NaiveText(At(Mon, 10, 15)), NaiveText(At(Mon, 10, 15))),
     Event(NoSepText(At(Mon, 9, 0)), NaiveText(At(Mon, 9, 30)))}
BCalendars ==
    {("person_a" :> evs) @@ ("person_b" :> evb) :
        evs \in SeqsUpTo(BEventPool, MaxBusy),
        evb \in {<<>>, <<Event(NaiveText(At(Mon, 10, 30)), NaiveText(At(Mon, 11, 30)))>>}}
BParticipants ==
    {<<"person_a">>, <<"person_a", "person_b">>, <<"person_b", "person_x">>}
BWindows ==
    {Event(NaiveText(At(Mon, 9, 0)), NaiveText(At(Mon, 12, 0))),
     Event(NaiveText(At(Mon, 9, 10)), NaiveText(At(Mon, 10, 30)))}
BProblem(tz, calendar_json, participants, time_window, duration_min) ==
    [prob |-> "base", tz |-> tz, calendar_json |-> calendar_json,
     participants |-> participants, time_window |-> time_window,
     duration_min |-> duration_min]
BaseProblems ==
    {BProblem(tz, cal, ps, tw, dur) :
        tz \in BZones, cal \in BCalendars, ps \in BParticipants,
        tw \in BWindows, dur \in KDurations}

KOut(free, cands, ov) == [free |-> free, cands |-> cands, ov |-> ov]

KInit ==
    /\ kpc = "ready"
    /\ kin \in FreeProblems \cup EnumProblems \cup OverlapProblems \cup BaseProblems
    /\ kout = KOut(<<>>, <<>>, FALSE)

KIdle ==
    /\ kpc = "idle"
    /\ kin = KProblem("none", <<>>, KNone, KNone, <<>>, 15, 30, <<>>)
    /\ kout = KOut(<<>>, <<>>, FALSE)

\* compute_common_free_windows applied to the drawn busy list and window
KFree ==
    /\ kpc = "ready" /\ kin.prob = "free"
    /\ kout' = [kout EXCEPT
                  !.free = compute_common_free_windows(kin.busy, kin.ws, kin.we)]
    /\ kpc' = "done"
    /\ UNCHANGED kin

\* enumerate_candidates applied to the drawn free windows
KEnum ==
    /\ kpc = "ready" /\ kin.prob = "enum"
    /\ kout' = [kout EXCEPT
                  !.cands = enumerate_candidates(kin.free, kin.dur, kin.ws,
                                                 kin.we, KTz, kin.grid)]
    /\ kpc' = "done"
    /\ UNCHANGED kin

\* intervals_overlap applied to four drawn instants
KOverlap ==
    /\ kpc = "ready" /\ kin.prob = "overlap"
    /\ kout' = [kout EXCEPT
                  !.ov = intervals_overlap(kin.pts[1], kin.pts[2],
                                           kin.pts[3], kin.pts[4])]
    /\ kpc' = "done"
    /\ UNCHANGED kin

\* level1_oracle.process_instance, lines 91-109: the busy intervals of the
\* participants are gathered, the time window parsed, the free windows
\* computed and the candidates enumerated on the 15-minute grid
KBaseEnumeration ==
    /\ kpc = "ready" /\ kin.prob = "base"
    /\ LET events == CalendarEvents(kin.calendar_json, kin.participants)
       IN  IF EventsFail(events)
           THEN /\ kpc' = "raised"
                /\ UNCHANGED kout
           ELSE LET busy == ParsedEvents(events, kin.tz)
                    ws == parse_datetime(kin.time_window.start, kin.tz)
                    we == parse_datetime(kin.time_window.end, kin.tz)
                    free == compute_common_free_windows(busy, ws, we)
                IN  /\ kout' = KOut(free,
                                    enumerate_candidates(free, kin.duration_min,
                                                         ws, we, kin.tz, 15),
                                    FALSE)
                    /\ kpc' = "done"
    /\ UNCHANGED kin

PIdle ==
    /\ level = 0 /\ world = <<>> /\ instance = <<>> /\ heap = <<>>
    /\ slotsRef = "none" /\ pc = "idle" /\ person_ids = <<>>
    /\ busy_intervals = <<>> /\ free_intervals = <<>>
    /\ base_candidates = <<>> /\ filtered = <<>> /\ fold = <<>>
    /\ room_candidates = <<>> /\ ret = <<>>

KernelInit == KInit /\ PIdle
KernelNext ==
    \/ KFree /\ UNCHANGED pvars
    \/ KEnum /\ UNCHANGED pvars
    \/ KOverlap /\ UNCHANGED pvars
    \/ KBaseEnumeration /\ UNCHANGED pvars
KernelSpec == KernelInit /\ [][KernelNext]_vars

----------------------------------------------------------------------------
(* process_instance: src/oracle/level1_oracle.py (tier 1) and              *)
(* src/oracle/level3_oracle.py (tier 3).  level2_oracle.py is not among    *)
(* the sources; tier 2 runs tier 1's steps with resolve_slots(2, ...) and  *)
(* apply_constraints(2, ..., instance), as the tier's state machine has it.*)

\* the local `slots`
slots == heap[slotsRef]
tz_str == world.timezone
\* the participants whose calendars are read: person_ids at tier 3
Participants == IF level = 3 THEN person_ids ELSE slots.participants
\* tier 3, lines 323-324: a copy of slots with participants = person_ids
slots_for_constraints == [slots EXCEPT !.participants = Participants]
time_window_start == parse_datetime(slots.time_window.start, tz_str)
time_window_end == parse_datetime(slots.time_window.end, tz_str)
policy_rules == world.sources.policy[slots.policy_id]

Raised(error) == /\ pc' = "raised" /\ ret' = Raise(error)

\* slots = resolve_slots(level, world, instance)
Resolve ==
    /\ pc = "resolve"
    /\ IF ResolveFails(level, heap["islots"])
       THEN /\ Raised(ResolveError(level))
            /\ UNCHANGED <<heap, slotsRef>>
       ELSE /\ heap' = ResolveInto(level, heap).heap
            /\ slotsRef' = ResolveInto(level, heap).ref
            /\ pc' = IF level = 3 THEN "map" ELSE "gather"
            /\ UNCHANGED ret
    /\ UNCHANGED <<level, world, instance, person_ids, busy_intervals,
                   free_intervals, base_candidates, filtered, fold,
                   room_candidates>>

\* tier 3: person_ids = map_participant_names_to_ids(world, participants, ...)
MapParticipants ==
    /\ pc = "map"
    /\ IF MapFails(world.sources.people_table, slots.participants)
       THEN /\ Raised("UnknownParticipant")
            /\ UNCHANGED person_ids
       ELSE /\ person_ids' = map_participant_names_to_ids(
                                 world.sources.people_table, slots.participants)
            /\ pc' = "gather"
            /\ UNCHANGED ret
    /\ UNCHANGED <<level, world, instance, heap, slotsRef, busy_intervals,
                   free_intervals, base_candidates, filtered, fold,
                   room_candidates>>

\* busy_intervals = gather_busy_intervals(world, participants, tz_str)
GatherBusy ==
    /\ pc = "gather"
    /\ LET events == CalendarEvents(world.sources.calendar_json, Participants)
       IN  IF EventsFail(events)
           THEN /\ Raised("MalformedTimestamp")
                /\ UNCHANGED busy_intervals
           ELSE /\ busy_intervals' = ParsedEvents(events, tz_str)
                /\ pc' = "window"
                /\ UNCHANGED ret
    /\ UNCHANGED <<level, world, instance, heap, slotsRef, person_ids,
                   free_intervals, base_candidates, filtered, fold,
                   room_candidates>>

\* the time window is parsed and the common free windows computed
FreeWindows ==
    /\ pc = "window"
    /\ IF ParseFails(slots.time_window.start) \/ ParseFails(slots.time_window.end)
       THEN /\ Raised("MalformedTimestamp")
            /\ UNCHANGED free_intervals
       ELSE /\ free_intervals' = compute_common_free_windows(
                                     busy_intervals, time_window_start,
                                     time_window_end)
            /\ pc' = "enumerate"
            /\ UNCHANGED ret
    /\ UNCHANGED <<level, world, instance, heap, slotsRef, person_ids,
                   busy_intervals, base_candidates, filtered, fold,
                   room_candidates>>

\* base_candidates = enumerate_candidates(..., grid_minutes=15)
Enumerate ==
    /\ pc = "enumerate"
    /\ base_candidates' = enumerate_candidates(free_intervals, slots.duration_min,
                                               time_window_start, time_window_end,
                                               tz_str, 15)
    /\ pc' = "constraints"
    /\ fold' = [phase |-> "begin", i |-> 0, j |-> 0]
    /\ UNCHANGED <<level, world, instance, heap, slotsRef, person_ids,
                   busy_intervals, free_intervals, filtered, room_candidates, ret>>

\* apply_constraints(level, world, slots, base_candidates, instance) up to
\* the loop over the policy rules: `filtered = candidates` and the lookup of
\* the policy (a KeyError at tier 1, a ValueError at tiers 2 and 3)
BeginConstraints ==
    /\ pc = "constraints" /\ fold.phase = "begin"
    /\ IF slots.policy_id \notin DOMAIN world.sources.policy
       THEN /\ Raised("UnknownPolicy")
            /\ UNCHANGED <<filtered, fold>>
       ELSE /\ filtered' = base_candidates
            /\ fold' = [phase |-> "policy", i |-> 1, j |-> 0]
            /\ UNCHANGED <<pc, ret>>
    /\ UNCHANGED <<level, world, instance, heap, slotsRef, person_ids,
                   busy_intervals, free_intervals, base_candidates,
                   room_candidates>>

\* where process_instance goes on when apply_constraints returned
AfterConstraints == IF level = 3 THEN "room_join" ELSE "admit"

\* the loop over the rules with `pass` in place of the raise of line 67: a
\* rule of an unknown type is stepped over
ApplyPolicyRuleSkipping ==
    /\ pc = "constraints" /\ fold.phase = "policy"
    /\ fold.i <= Len(policy_rules)
    /\ filtered' = IF policy_rules[fold.i].type \notin KnownRuleTypes
                   THEN filtered
                   ELSE ApplyRule(filtered, policy_rules[fold.i], world,
                                  slots_for_constraints)
    /\ fold' = [fold EXCEPT !.i = @ + 1]
    /\ UNCHANGED <<pc, ret>>
    /\ UNCHANGED <<level, world, instance, heap, slotsRef, person_ids,
                   busy_intervals, free_intervals, base_candidates,
                   room_candidates>>

\* one rule of the policy: its filter, or ValueError for an unknown type
ApplyPolicyRule ==
    /\ pc = "constraints" /\ fold.phase = "policy"
    /\ fold.i <= Len(policy_rules)
    /\ IF policy_rules[fold.i].type \notin KnownRuleTypes
       THEN /\ Raised("UnknownRuleType")
            /\ UNCHANGED <<filtered, fold>>
       ELSE /\ filtered' = ApplyRule(filtered, policy_rules[fold.i], world,
                                     slots_for_constraints)
            /\ fold' = [fold EXCEPT !.i = @ + 1]
            /\ UNCHANGED <<pc, ret>>
    /\ UNCHANGED <<level, world, instance, heap, slotsRef, person_ids,
                   busy_intervals, free_intervals, base_candidates,
                   room_candidates>>

\* after the last rule: tier 1 returns; tiers 2 and 3 look for the evidence
\* (constraints.py lines 241-247 and 377-384)
EndPolicyRules ==
    /\ pc = "constraints" /\ fold.phase = "policy"
    /\ fold.i > Len(policy_rules)
    /\ CASE level = 1 ->
              /\ pc' = AfterConstraints
              /\ fold' = [phase |-> "done", i |-> 0, j |-> 0]
              /\ UNCHANGED ret
         [] level = 2 ->
              IF ~instance.has_sources \/ ~instance.sources.has_comm_tags
              THEN Raised("MissingCommTags") /\ UNCHANGED fold
              ELSE /\ fold' = [phase |-> "comm", i |-> 1, j |-> 1]
                   /\ UNCHANGED <<pc, ret>>
         [] level = 3 ->
              IF ~instance.has_sources
              THEN Raised("MissingSources") /\ UNCHANGED fold
              ELSE IF ~instance.sources.has_comm_threads
              THEN /\ pc' = AfterConstraints
                   /\ fold' = [phase |-> "done", i |-> 0, j |-> 0]
                   /\ UNCHANGED ret
              ELSE /\ fold' = [phase |-> "comm", i |-> 1, j |-> 1]
                   /\ UNCHANGED <<pc, ret>>
    /\ UNCHANGED <<level, world, instance, heap, slotsRef, person_ids,
                   busy_intervals, free_intervals, base_candidates, filtered,
                   room_candidates>>

\* the bundles of evidence: tier 2's comm_tags, tier 3's threads
NumBundles == IF level = 2 THEN 1 ELSE Len(instance.sources.comm_threads)
\* only the first thread's tags are read
FirstThreadHasTags(i) ==
    level = 2 \/ (i = 1 /\ instance.sources.comm_threads[i].has_tags)
BundleHasTags(i) ==
    level = 2 \/ instance.sources.comm_threads[i].has_tags
BundleTags(i) ==
    IF level = 2 THEN instance.sources.comm_tags
    ELSE instance.sources.comm_threads[i].thread_tags

\* one evidence filter of the current bundle (deadline, ban_windows,
\* required_windows in this order), or the step over a thread without tags
ApplyEvidence ==
    /\ pc = "constraints" /\ fold.phase = "comm"
    /\ fold.i <= NumBundles
    /\ IF ~BundleHasTags(fold.i)
       THEN /\ fold' = [fold EXCEPT !.i = @ + 1, !.j = 1]
            /\ UNCHANGED <<filtered, pc, ret>>
       ELSE IF TagFails(BundleTags(fold.i), fold.j)
       THEN /\ Raised("MalformedTimestamp")
            /\ UNCHANGED <<filtered, fold>>
       ELSE /\ filtered' = ApplyTag(filtered, BundleTags(fold.i), fold.j, tz_str)
            /\ fold' = IF fold.j < 3 THEN [fold EXCEPT !.j = @ + 1]
                       ELSE [fold EXCEPT !.i = @ + 1, !.j = 1]
            /\ UNCHANGED <<pc, ret>>
    /\ UNCHANGED <<level, world, instance, heap, slotsRef, person_ids,
                   busy_intervals, free_intervals, base_candidates,
                   room_candidates>>

\* apply_constraints returns filtered
EndEvidence ==
    /\ pc = "constraints" /\ fold.phase = "comm"
    /\ fold.i > NumBundles
    /\ pc' = AfterConstraints
    /\ fold' = [phase |-> "done", i |-> 0, j |-> 0]
    /\ UNCHANGED <<level, world, instance, heap, slotsRef, person_ids,
                   busy_intervals, free_intervals, base_candidates, filtered,
                   room_candidates, ret>>

\* tier 3, lines 353-357: the rooms that fit and the room join
RoomJoin ==
    /\ pc = "room_join"
    /\ LET rooms == world.sources.rooms_table
           avail == world.sources.room_availability_json
           valid_room_ids == filter_rooms_by_capacity(rooms, Len(person_ids))
       IN  IF RoomsFail(rooms)
           THEN Raised("MissingCapacity") /\ UNCHANGED room_candidates
           ELSE IF JoinFails(avail, filtered, valid_room_ids)
           THEN Raised("MalformedTimestamp") /\ UNCHANGED room_candidates
           ELSE /\ room_candidates' = join_room_availability(
                                          avail, filtered, valid_room_ids, tz_str)
                /\ pc' = "admit"
                /\ UNCHANGED ret
    /\ UNCHANGED <<level, world, instance, heap, slotsRef, person_ids,
                   busy_intervals, free_intervals, base_candidates, filtered,
                   fold>>

\* the candidates the admissibility check counts
Surviving == IF level = 3 THEN room_candidates ELSE filtered

DebugInfo ==
    [num_generated |-> Len(base_candidates),
     num_after_constraints |-> Len(filtered),
     num_after_room_join |-> Len(room_candidates),
     num_options |-> slots.num_options]

\* discarded = num_after_constraints < num_options (tier 3: num_after_room_join)
IsDiscardedLenient(n, num_options) == n + 1 < num_options
IsDiscarded(n, num_options) == n < num_options

\* lines 118-130 (tier 3: 361-374): the admissibility check
Admit ==
    /\ pc = "admit"
    /\ IF IsDiscarded(Len(Surviving), slots.num_options)
       THEN /\ ret' = Ret("discarded", NoResult, DebugInfo, TRUE, "")
            /\ pc' = "returned"
       ELSE /\ pc' = "rank"
            /\ UNCHANGED ret
    /\ UNCHANGED <<level, world, instance, heap, slotsRef, person_ids,
                   busy_intervals, free_intervals, base_candidates, filtered,
                   fold, room_candidates>>

\* the ranked and truncated candidates: select_top_n at tiers 1 and 2,
\* sort_candidates_level3 and [:num_options] at tier 3
FinalCandidates ==
    IF level = 3
    THEN Slice(sort_candidates_level3(room_candidates, get_sort_spec(instance),
                                      tz_str),
               slots.num_options)
    ELSE select_top_n(filtered, slots.num_options)

Key(source, key) == [source |-> source, key |-> key]

\* explanation_keys
ExplanationKeys ==
    [i \in 1..Len(Participants) |-> Key("calendar_json", Participants[i])]
    \o <<Key(IF level = 1 THEN "policy_json" ELSE "policy_tags", slots.policy_id)>>
    \o (IF level = 3 /\ instance.has_sources /\ instance.sources.has_comm_threads
        THEN LET tagged == SelectSeq(instance.sources.comm_threads,
                                     LAMBDA t : t.has_tags)
             IN  [i \in 1..Len(tagged) |-> Key("comm_threads", tagged[i].thread_id)]
        ELSE <<>>)
    \o (IF level = 3
        THEN <<Key("people_table", "people_table"),
               Key("rooms_table", "rooms_table"),
               Key("room_availability_json", "room_availability_json")>>
        ELSE <<>>)
    \o <<Key("slots", "time_window")>>

\* lines 132-160 (tier 3: 376-433): rank, truncate, build and return the result
Rank ==
    /\ pc = "rank"
    /\ ret' = Ret("result",
                  [instance_id |-> instance.instance_id,
                   feasible_candidates |-> FinalCandidates,
                   explanation_keys |-> ExplanationKeys,
                   meta |-> DebugInfo],
                  DebugInfo, FALSE, "")
    /\ pc' = "returned"
    /\ UNCHANGED <<level, world, instance, heap, slotsRef, person_ids,
                   busy_intervals, free_intervals, base_candidates, filtered,
                   fold, room_candidates>>

Init == PInit /\ KIdle
Next ==
    \/ Resolve /\ UNCHANGED kvars
    \/ MapParticipants /\ UNCHANGED kvars
    \/ GatherBusy /\ UNCHANGED kvars
    \/ FreeWindows /\ UNCHANGED kvars
    \/ Enumerate /\ UNCHANGED kvars
    \/ BeginConstraints /\ UNCHANGED kvars
    \/ ApplyPolicyRule /\ UNCHANGED kvars
    \/ EndPolicyRules /\ UNCHANGED kvars
    \/ ApplyEvidence /\ UNCHANGED kvars
    \/ EndEvidence /\ UNCHANGED kvars
    \/ RoomJoin /\ UNCHANGED kvars
    \/ Admit /\ UNCHANGED kvars
    \/ Rank /\ UNCHANGED kvars
Spec == Init /\ [][Next]_vars

----------------------------------------------------------------------------
(* The claims                                                              *)

Returned == pc = "returned"
InstSlots == heap["islots"]

\* the end-to-end example: Asia/Seoul, two participants, A busy 10:00-11:00,
\* work hours 09:00-18:00 and lunch 12:00-13:00, 30 minutes in 09:00-14:00
IsExample ==
    /\ pc # "idle" /\ level = 1
    /\ world.timezone = "Asia/Seoul"
    /\ world.sources.calendar_json["person_a"] =
           <<Event(NaiveText(At(Mon, 10, 0)), NaiveText(At(Mon, 11, 0)))>>
    /\ InstSlots.participants = <<"person_a", "person_b">>
    /\ InstSlots.policy_id = "P_STD"
    /\ InstSlots.duration_min = 30
    /\ InstSlots.time_window =
           Event(NaiveText(At(Mon, 9, 0)), NaiveText(At(Mon, 14, 0)))

\* a 30-minute candidate of the example starting at hh:mm
ExampleCandidate(hm) ==
    [start |-> OffsetText(At(Mon, hm[1], hm[2]), 540),
     end |-> OffsetText(At(Mon, hm[1], hm[2]) + 30, 540)]
ExampleOf(times) == [i \in 1..Len(times) |-> ExampleCandidate(times[i])]

ClaimedSurvivors ==
    ExampleOf(<< <<9, 0>>, <<9, 15>>, <<9, 30>>, <<9, 45>>, <<11, 0>>, <<11, 15>>,
                 <<11, 30>>, <<11, 45>>, <<13, 0>>, <<13, 15>>, <<13, 30>>,
                 <<13, 45>> >>)
ActualSurvivors ==
    ExampleOf(<< <<9, 0>>, <<9, 15>>, <<9, 30>>, <<11, 0>>, <<11, 15>>,
                 <<11, 30>>, <<13, 0>>, <<13, 15>>, <<13, 30>> >>)

\* C1 as stated: in the end-to-end example the candidates surviving filtering
\* start at 09:00, 09:15, 09:30, 09:45, 11:00, 11:15, 11:30, 11:45, 13:00,
\* 13:15, 13:30 and 13:45.
C1_Claimed ==
    (IsExample /\ pc \in {"admit", "rank", "returned"}) => filtered = ClaimedSurvivors

\* C1, amended: in the end-to-end example the candidates surviving filtering
\* are the nine 30-minute slots starting at 09:00, 09:15, 09:30, 11:00, 11:15,
\* 11:30, 13:00, 13:15 and 13:30 (09:45, 11:45 and 13:45 would run into the
\* busy hour, the lunch block and the end of the window), and for
\* 1 <= num_options <= 9 a result is returned whose feasible_candidates are
\* the first num_options of these in ascending order.
C1_Example ==
    /\ (IsExample /\ pc \in {"admit", "rank", "returned"})
           => filtered = ActualSurvivors
    /\ (IsExample /\ Returned /\ InstSlots.num_options \in 1..9)
           => /\ ret.kind = "result"
              /\ ret.result.feasible_candidates =
                     SubSeq(ActualSurvivors, 1, InstSlots.num_options)

C1_Witness ==
    /\ IsExample /\ Returned /\ InstSlots.num_options = 3
    /\ ret.kind = "result"
    /\ Len(ret.result.feasible_candidates) = 3

\* C2: process_instance (tiers 1 and 3) ends discarded, with no result,
\* debug_info.discarded true and the counts filled in, if and only if the
\* number of surviving candidates (tier 3: triples after the room join) is
\* strictly less than num_options; otherwise it ends accepted with a result.
\* The example with num_options = 20 is discarded with a count below 20.
C2_Admissibility ==
    (Returned /\ level \in {1, 3}) =>
        /\ ret.kind \in {"discarded", "result"}
        /\ (ret.kind = "discarded") <=> (Len(Surviving) < slots.num_options)
        /\ ret.discarded <=> (ret.kind = "discarded")
        /\ ret.kind = "discarded" => ret.result = NoResult
        /\ ret.debug_info.num_generated = Len(base_candidates)
        /\ ret.debug_info.num_after_constraints = Len(filtered)
        /\ level = 3 => ret.debug_info.num_after_room_join = Len(room_candidates)
        /\ ret.debug_info.num_options = slots.num_options
        /\ (IsExample /\ InstSlots.num_options = 20)
               => /\ ret.kind = "discarded"
                  /\ ret.debug_info.num_after_constraints < 20

C2_Witness ==
    /\ IsExample /\ Returned /\ InstSlots.num_options = 20
    /\ ret.kind = "discarded"

\* C3: process_instance (tiers 1 and 3) either returns no result or returns a
\* result whose feasible_candidates has length exactly num_options, whatever
\* num_options the instance carries.
C3_NoPartialResults ==
    (Returned /\ level \in {1, 3} /\ ret.kind = "result") =>
        Len(ret.result.feasible_candidates) = slots.num_options

\* C5: no step of process_instance (tiers 1 and 3), whether it ends accepted,
\* discarded or with an error, changes the world, the instance or the
\* instance's slots (participants list included).
InputsKept ==
    level \in {1, 3} =>
        /\ world' = world
        /\ instance' = instance
        /\ heap'["islots"] = heap["islots"]

C5_InputsUnchanged == [][InputsKept]_vars

C5_Witness ==
    /\ level = 3 /\ Returned /\ ret.kind = "result"
    /\ InstSlots.num_options = 20 /\ slots.num_options = 3
    /\ InstSlots.participants = <<"Alice", "person_b">>
    /\ person_ids = <<"person_a", "person_b">>

\* the time cell starting at point t: [t, t + KStep)
InHalfOpen(t, iv) == iv[1].utc <= t.utc /\ t.utc < iv[2].utc
KCells == {KPoint(i) : i \in 0..(KMaxT - 1)}
CoveredBy(t, free) == {j \in 1..Len(free) : InHalfOpen(t, free[j])}
BusyAt(t, busy) == \E i \in 1..Len(busy) : InHalfOpen(t, busy[i])
KFreeDone == kpc = "done" /\ kin.prob = "free"

\* C6: every point of the window that lies in no busy interval is covered by
\* exactly one window returned by compute_common_free_windows, no returned
\* window contains a busy point, and the returned windows are pairwise
\* non-overlapping.
C6_FreeWindowComplement ==
    KFreeDone =>
        /\ \A t \in KCells :
              /\ (InHalfOpen(t, <<kin.ws, kin.we>>) /\ ~BusyAt(t, kin.busy))
                     => Cardinality(CoveredBy(t, kout.free)) = 1
              /\ BusyAt(t, kin.busy) => CoveredBy(t, kout.free) = {}
        /\ \A j, k \in 1..Len(kout.free) :
              j < k => \/ kout.free[j][2].utc <= kout.free[k][1].utc
                       \/ kout.free[k][2].utc <= kout.free[j][1].utc

\* an unsorted list whose earlier busy interval straddles the window start
C6_Witness ==
    /\ KFreeDone
    /\ Len(kin.busy) = 2
    /\ kin.busy[2][1].utc < kin.busy[1][1].utc
    /\ kin.busy[2][1].utc < kin.ws.utc /\ kin.ws.utc < kin.busy[2][2].utc
    /\ Len(kout.free) = 1
    /\ kout.free[1][1] = kin.busy[2][2]

CandidateOk(c) ==
    LET start_dt == parse_datetime(c.start, tz_str)
        end_dt == parse_datetime(c.end, tz_str)
    IN  /\ end_dt.utc - start_dt.utc = slots.duration_min
        /\ time_window_start.utc <= start_dt.utc
        /\ end_dt.utc <= time_window_end.utc

AllOk(cands) == \A i \in 1..Len(cands) : CandidateOk(cands[i])

\* C7: every candidate emitted by enumerate_candidates, and every candidate
\* that survives filtering, the room join and the ranking into a result, has
\* end - start = duration_minutes and lies within the time window.
C7_CandidateInvariant ==
    /\ AllOk(base_candidates)
    /\ AllOk(filtered)
    /\ AllOk(room_candidates)
    /\ AllOk(ret.result.feasible_candidates)

C7_Witness ==
    /\ Returned /\ ret.kind = "result"
    /\ slots.duration_min = 60
    /\ Len(ret.result.feasible_candidates) = 3
    /\ Len(base_candidates) > Len(filtered)

KEnumDone == kpc = "done" /\ kin.prob = "enum"

\* C8: for any free windows, search window and grid_minutes, every candidate
\* emitted by enumerate_candidates has a start whose minute is a multiple of
\* grid_minutes.
C8_GridAlignment ==
    KEnumDone =>
        \A i \in 1..Len(kout.cands) :
            ((kout.cands[i].start.wall % 60) % kin.grid) = 0

KOverlapDone == kpc = "done" /\ kin.prob = "overlap"
KBaseDone == kpc = "done" /\ kin.prob = "base"

\* C9: intervals_overlap(s1, e1, s2, e2) is true exactly when s1 < e2 and
\* s2 < e1; intervals that only touch at an endpoint never overlap.
C9_HalfOpenOverlap ==
    KOverlapDone =>
        LET s1 == kin.pts[1].utc
            e1 == kin.pts[2].utc
            s2 == kin.pts[3].utc
            e2 == kin.pts[4].utc
        IN  /\ kout.ov <=> (s1 < e2 /\ s2 < e1)
            /\ (s1 < e1 /\ e1 = s2 /\ s2 < e2) => ~kout.ov
            /\ (s2 < e2 /\ e2 = s1 /\ s1 < e1) => ~kout.ov

C9_Witness ==
    /\ KOverlapDone
    /\ kin.pts[1].utc < kin.pts[2].utc
    /\ kin.pts[2] = kin.pts[3]
    /\ kin.pts[3].utc < kin.pts[4].utc
    /\ ~kout.ov

\* xs is a subsequence of ys: ys with some elements removed
RECURSIVE IsSubseq(_, _)
IsSubseq(xs, ys) ==
    IF xs = <<>> THEN TRUE
    ELSE IF ys = <<>> THEN FALSE
    ELSE IF Head(xs) = Head(ys) THEN IsSubseq(Tail(xs), Tail(ys))
    ELSE IsSubseq(xs, Tail(ys))

InFold == pc = "constraints" /\ fold.phase \in {"policy", "comm"}

\* C10: at every tier the list apply_constraints returns is a subsequence of
\* the candidates it was given, and so is the list after each single filter
\* of the fold with respect to the list before it.
FoldWithinInput ==
    fold.phase \in {"policy", "comm", "done"} => IsSubseq(filtered, base_candidates)
FilterStepRemoves == InFold => IsSubseq(filtered', filtered)

C10_FiltersOnlyRemove == [](FoldWithinInput) /\ [][FilterStepRemoves]_vars

C10_Witness ==
    /\ level = 3 /\ fold.phase = "done"
    /\ filtered # <<>>
    /\ Len(filtered) < Len(base_candidates)
    /\ instance.sources.has_comm_threads

\* the policy the resolved requirement selects holds a rule of a type the
\* dispatch does not know
PolicySelected ==
    /\ pc # "idle" /\ slotsRef # "none"
    /\ slots.policy_id \in DOMAIN world.sources.policy
UnknownRuleSelected ==
    /\ PolicySelected
    /\ \E i \in 1..Len(policy_rules) : policy_rules[i].type \notin KnownRuleTypes

\* C17: when the selected policy's rule list holds a rule of a type other than
\* work_hours, lunch_block, buffer_min and ban_dow_time, at any tier and
\* wherever the rule stands, apply_constraints never gets past the rules: a
\* run that enters the loop ends with the unknown-rule error, also with no
\* candidate left, and process_instance returns neither a result nor a
\* discard.
C17_UnknownRuleFatal ==
    UnknownRuleSelected =>
        /\ ret.kind \notin {"result", "discarded"}
        /\ pc \notin {"room_join", "admit", "rank", "returned"}
        /\ fold.phase \in {"none", "begin", "policy"}
        /\ (pc = "raised" /\ fold.phase = "policy")
               => /\ ret.error = "UnknownRuleType"
                  /\ policy_rules[fold.i].type \notin KnownRuleTypes

\* the unknown rule stands last and the rule before it left no candidate
C17_Witness ==
    /\ UnknownRuleSelected /\ level = 2
    /\ slots.policy_id = "P_BAD"
    /\ pc = "raised" /\ ret.error = "UnknownRuleType"
    /\ fold.phase = "policy" /\ fold.i = 2
    /\ filtered = <<>>

ResolveActed == pc \notin {"idle", "resolve"}

\* C18: resolve_slots at tiers 2 and 3 fails with an error whenever the
\* instance's policy_id is missing or empty, and otherwise returns a
\* requirement whose policy_id is the instance's; no requirement with an empty
\* policy_id is returned at these tiers.
C18_MandatoryPolicyId ==
    (ResolveActed /\ level \in {2, 3}) =>
        IF InstSlots.policy_id \in {NoKey, ""}
        THEN /\ pc = "raised" /\ ret.kind = "error"
             /\ ret.error = "MissingPolicyId"
             /\ slotsRef = "none"
        ELSE /\ slotsRef # "none"
             /\ slots.policy_id = InstSlots.policy_id
             /\ slots.policy_id \notin {NoKey, ""}

C18_Witness ==
    /\ ResolveActed /\ level = 2
    /\ InstSlots.policy_id = ""
    /\ pc = "raised" /\ ret.error = "MissingPolicyId"

\* C19: whatever num_options the instance carries, resolve_slots at tier 3
\* returns num_options = 3, the tier-3 admissibility check compares the
\* joined triples against 3, and every tier-3 result has exactly 3 feasible
\* candidates and meta num_options = 3.
C19_TierThreeFixesOptions ==
    (level = 3 /\ slotsRef # "none") =>
        /\ slots.num_options = 3
        /\ Returned =>
              /\ (ret.kind = "discarded") <=> (Len(room_candidates) < 3)
              /\ ret.debug_info.num_options = 3
        /\ ret.kind = "result" =>
              /\ Len(ret.result.feasible_candidates) = 3
              /\ ret.result.meta.num_options = 3

\* an instance asking for one option gets three of more than three triples
C19_Witness ==
    /\ level = 3 /\ Returned /\ ret.kind = "result"
    /\ InstSlots.num_options = 1
    /\ Len(room_candidates) > 3
    /\ Len(ret.result.feasible_candidates) = 3

\* C20: every requirement resolve_slots returns, at every tier, has
\* duration_min > 0 and num_options >= 1, and an instance violating either
\* never reaches candidate enumeration or ranking.
C20_RequirementInvariants ==
    /\ slotsRef # "none" => (slots.duration_min > 0 /\ slots.num_options >= 1)
    /\ (pc # "idle" /\ level # 3 /\ InstSlots.num_options < 1)
           => pc \notin {"enumerate", "constraints", "admit", "rank", "returned"}

----------------------------------------------------------------------------
(* The filters of src/oracle/constraints.py applied to drawn candidate     *)
(* lists, rules and evidence                                               *)

\* candidates in a list handed to a filter
MaxCands == 2
\* ban or required windows in a list of evidence
MaxWindows == 2
\* calendar events of person_a in a world handed to filter_buffer_min
MaxBufferEvents == 2

FZones == {"Asia/Seoul", "America/Bogota"}
Sat == Mon + 5
FDays == <<Mon, Sat>>

\* hour, minute and duration of the candidates of one day, ascending
FShapes == << <<8, 30, 30>>, <<8, 30, 60>>, <<9, 0, 60>>, <<9, 30, 60>>, <<10, 0, 30>>, <<23, 30, 60>> >>

\* a candidate as enumerate_candidates renders it in the zone tz
FCandidate(day, shape, tz) ==
    LET wall == At(day, shape[1], shape[2])
        start_dt == Dt(wall - ZoneInfo(tz), ZoneInfo(tz))
    IN  [start |-> to_iso_with_tz(start_dt, tz),
         end |-> to_iso_with_tz(Plus(start_dt, shape[3]), tz)]

\* all candidates of the two days in ascending order, and its slices
FMaster(tz) ==
    [k \in 1..(Len(FDays) * Len(FShapes)) |->
        FCandidate(FDays[((k - 1) \div Len(FShapes)) + 1],
                   FShapes[((k - 1) % Len(FShapes)) + 1], tz)]
FLists(tz) ==
    LET master == FMaster(tz)
        Last(i, n) == IF i + n - 1 > Len(master) THEN Len(master) ELSE i + n - 1
    IN  {SubSeq(master, i, Last(i, n)) : i \in 1..Len(master), n \in 0..MaxCands}

\* daily windows: inside the day, across midnight, and with end = start
FDaily == {<<HHMM(9, 0), HHMM(10, 0)>>, <<HHMM(22, 0), HHMM(1, 0)>>, <<HHMM(9, 0), HHMM(9, 0)>>}
\* days_of_week: absent, Monday to Friday, Saturday only
FDows == {<<FALSE, {}>>, <<TRUE, {0, 1, 2, 3, 4}>>, <<TRUE, {Sat}>>}
FDailyRules(type) ==
    {Rule(type, w[1], w[2], d[1], d[2], 0, 0) : w \in FDaily, d \in FDows}

\* time strings of evidence and calendars: bare, with a positive offset, with
\* a negative offset, with Z, and malformed
FWindowPool ==
    {Event(NaiveText(At(Mon, 9, 0)), NaiveText(At(Mon, 10, 0))),
     Event(NaiveText(At(Mon, 10, 0)), NaiveText(At(Mon, 10, 30))),
     Event(OffsetText(At(Mon, 8, 30), 540), OffsetText(At(Mon, 9, 30), 540)),
     Event(OffsetText(At(Mon, 23, 30), -300), OffsetText(At(Mon + 1, 0, 30), -300)),
     Event(ZText(At(Mon, 13, 30)), ZText(At(Mon, 15, 0))),
     Event(NoSepText(At(Mon, 9, 0)), NaiveText(At(Mon, 10, 0)))}
FDeadlines ==
    {NaiveText(At(Mon, 9, 0)), NaiveText(At(Mon, 9, 30)),
     OffsetText(At(Mon, 8, 30), 540), OffsetText(At(Mon, 9, 0), -300),
     ZText(At(Mon, 14, 0)), NoSepText(At(Mon, 9, 0))}
FEventPool ==
    {Event(NaiveText(At(Mon, 9, 30)), NaiveText(At(Mon, 10, 0))),
     Event(OffsetText(At(Mon, 10, 30), 540), OffsetText(At(Mon, 11, 0), 540)),
     Event(OffsetText(At(Mon, 7, 30), -300), OffsetText(At(Mon, 8, 0), -300))}
FCalendars ==
    {("person_a" :> evs) @@
     ("person_b" :> <<Event(NaiveText(At(Sat, 9, 30)), NaiveText(At(Sat, 10, 0)))>>) :
        evs \in SeqsUpTo(FEventPool, MaxBufferEvents)}
FParticipants ==
    {<<"person_a">>, <<"person_a", "person_b">>, <<"person_z", "person_b">>}
FMinutes == {0, 30}

FProblem(prob, tz, cands, rule, calendar_json, participants, windows, deadline) ==
    [prob |-> prob, tz |-> tz, cands |-> cands, rule |-> rule,
     calendar_json |-> calendar_json, participants |-> participants,
     windows |-> windows, deadline |-> deadline]
FNoCal == ("person_a" :> <<>>)
FNoDeadline == NaiveText(0)

FWorkProblems(tz) ==
    {FProblem("work", tz, cands, rule, FNoCal, <<>>, <<>>, FNoDeadline) :
        cands \in FLists(tz), rule \in FDailyRules("work_hours")}
FLunchProblems(tz) ==
    {FProblem("lunch", tz, cands, rule, FNoCal, <<>>, <<>>, FNoDeadline) :
        cands \in FLists(tz), rule \in FDailyRules("lunch_block")}
FBufferProblems(tz) ==
    {FProblem("buffer", tz, cands, BufferMin(m), cal, ps, <<>>, FNoDeadline) :
        cands \in FLists(tz), m \in FMinutes, cal \in FCalendars,
        ps \in FParticipants}
FDeadlineProblems(tz) ==
    {FProblem("deadline", tz, cands, UnknownRule, FNoCal, <<>>, <<>>, d) :
        cands \in FLists(tz), d \in FDeadlines}
FWindowProblems(prob, tz) ==
    {FProblem(prob, tz, cands, UnknownRule, FNoCal, <<>>, ws, FNoDeadline) :
        cands \in FLists(tz), ws \in SeqsUpTo(FWindowPool, MaxWindows)}

\* a filter's outcome: the list it returns, or the ValueError of parse_datetime
FOut(cands, raised) == [cands |-> cands, raised |-> raised]

FilterProblems ==
    UNION {FWorkProblems(tz) \cup FLunchProblems(tz) \cup FBufferProblems(tz)
               \cup FDeadlineProblems(tz) \cup FWindowProblems("ban", tz)
               \cup FWindowProblems("required", tz) : tz \in FZones}

FInit ==
    /\ kpc = "ready"
    /\ kin \in FilterProblems
    /\ kout = FOut(<<>>, FALSE)

FReady(prob) == kpc = "ready" /\ kin.prob = prob
FReturn(cands, raised) ==
    /\ kout' = FOut(IF raised THEN <<>> ELSE cands, raised)
    /\ kpc' = "done"
    /\ UNCHANGED kin

FWork ==
    /\ FReady("work")
    /\ FReturn(filter_work_hours(kin.cands, kin.rule, kin.tz), FALSE)

FLunch ==
    /\ FReady("lunch")
    /\ FReturn(filter_lunch_block(kin.cands, kin.rule, kin.tz), FALSE)

FWorld == World(kin.tz, kin.calendar_json, <<>>)
FSlots == [participants |-> kin.participants]

FBuffer ==
    /\ FReady("buffer")
    /\ FReturn(filter_buffer_min(kin.cands, kin.rule, FWorld, FSlots),
               EventsFail(CalendarEvents(kin.calendar_json, kin.participants)))

FDeadline ==
    /\ FReady("deadline")
    /\ FReturn(filter_deadline(kin.cands, kin.deadline, kin.tz),
               ParseFails(kin.deadline))

FBan ==
    /\ FReady("ban")
    /\ FReturn(filter_ban_windows(kin.cands, kin.windows, kin.tz),
               EventsFail(kin.windows))

FRequired ==
    /\ FReady("required")
    /\ FReturn(filter_required_windows(kin.cands, kin.windows, kin.tz),
               EventsFail(kin.windows))

FilterInit == FInit /\ PIdle
FilterNext ==
    \/ FWork /\ UNCHANGED pvars
    \/ FLunch /\ UNCHANGED pvars
    \/ FBuffer /\ UNCHANGED pvars
    \/ FDeadline /\ UNCHANGED pvars
    \/ FBan /\ UNCHANGED pvars
    \/ FRequired /\ UNCHANGED pvars
FilterSpec == FilterInit /\ [][FilterNext]_vars

----------------------------------------------------------------------------
(* The claims about the filters                                            *)

FDone(prob) == kpc = "done" /\ kin.prob = prob /\ ~kout.raised

\* the calendar day of a candidate's start, its weekday, and the daily window
\* of a rule on that day, all in wall-clock minutes of the candidate's zone
DayOf(c) == c.start.wall \div 1440
RuleApplies(c, rule) == ~rule.has_dow \/ (DayOf(c) % 7) \in rule.days_of_week
DailyStart(c, rule) == DayOf(c) * 1440 + rule.start
DailyEnd(c, rule) ==
    IF rule.end <= rule.start
    THEN (DayOf(c) + 1) * 1440 + rule.end
    ELSE DayOf(c) * 1440 + rule.end

InsideDaily(c, rule) ==
    c.start.wall >= DailyStart(c, rule) /\ c.end.wall <= DailyEnd(c, rule)
OverlapsDaily(c, rule) ==
    c.start.wall < DailyEnd(c, rule) /\ DailyStart(c, rule) < c.end.wall

\* the candidates of the list that satisfy Keep, in the list's order
KeptWorkHours(cands, rule) ==
    LET Keep(c) == RuleApplies(c, rule) /\ InsideDaily(c, rule)
    IN  SelectSeq(cands, Keep)
KeptLunchBlock(cands, rule) ==
    LET Keep(c) == ~(RuleApplies(c, rule) /\ OverlapsDaily(c, rule))
    IN  SelectSeq(cands, Keep)

\* C11: filter_work_hours keeps a candidate if and only if the rule's weekdays
\* are unset or contain the weekday of the candidate's start, and the
\* candidate lies within the rule's daily window built on the day of its
\* start (the window's end one day later when it is not after its start); a
\* candidate on a weekday outside the set is dropped.
C11_WorkHours ==
    FDone("work") => kout.cands = KeptWorkHours(kin.cands, kin.rule)

\* a window across midnight keeps Monday's 23:30-00:30 and the weekday set
\* drops Saturday's candidate
C11_Witness ==
    /\ FDone("work") /\ kin.tz = "America/Bogota"
    /\ kin.rule.has_dow /\ kin.rule.days_of_week = {0, 1, 2, 3, 4}
    /\ kin.rule.start = HHMM(22, 0) /\ kin.rule.end = HHMM(1, 0)
    /\ kin.cands = <<FCandidate(Mon, <<23, 30, 60>>, kin.tz),
                     FCandidate(Sat, <<8, 30, 30>>, kin.tz)>>
    /\ kout.cands = <<FCandidate(Mon, <<23, 30, 60>>, kin.tz)>>

\* C12: filter_lunch_block drops a candidate if and only if the rule applies
\* on the weekday of the candidate's start (weekdays unset or containing it)
\* and the candidate overlaps, half-open, the lunch window built on the day
\* of its start; a candidate on a weekday outside the set is kept.
C12_LunchBlock ==
    FDone("lunch") => kout.cands = KeptLunchBlock(kin.cands, kin.rule)

\* Monday's candidates inside a lunch window that applies on Saturdays only
C12_Witness ==
    /\ FDone("lunch") /\ kin.tz = "Asia/Seoul"
    /\ kin.rule.has_dow /\ kin.rule.days_of_week = {Sat}
    /\ kin.rule.start = HHMM(9, 0) /\ kin.rule.end = HHMM(10, 0)
    /\ kin.cands = <<FCandidate(Mon, <<9, 0, 60>>, kin.tz),
                     FCandidate(Mon, <<9, 30, 60>>, kin.tz)>>
    /\ kout.cands = kin.cands

\* the instant a candidate's text denotes: its wall clock less its offset
StartInstant(c) == c.start.wall - c.start.off
EndInstant(c) == c.end.wall - c.end.off
\* the instants of an interval of a calendar or of evidence, read by the kernel
IntervalStart(iv, tz) == parse_datetime(iv.start, tz).utc
IntervalEnd(iv, tz) == parse_datetime(iv.end, tz).utc

\* some busy interval of some participant, widened by minutes on both sides,
\* overlaps the candidate
NearBusy(c, calendar_json, participants, minutes, tz) ==
    \E k \in 1..Len(participants) :
        /\ participants[k] \in DOMAIN calendar_json
        /\ \E ev \in {calendar_json[participants[k]][n] :
                         n \in 1..Len(calendar_json[participants[k]])} :
              /\ StartInstant(c) < IntervalEnd(ev, tz) + minutes
              /\ IntervalStart(ev, tz) - minutes < EndInstant(c)

KeptBufferMin(cands, calendar_json, participants, minutes, tz) ==
    LET Keep(c) == ~NearBusy(c, calendar_json, participants, minutes, tz)
    IN  SelectSeq(cands, Keep)

\* C13: filter_buffer_min drops a candidate if and only if it overlaps,
\* half-open, [busy.start - minutes, busy.end + minutes) for at least one busy
\* interval of at least one participant, adjacent to the candidate or not; all
\* other candidates are kept.
C13_BufferMinutes ==
    FDone("buffer") =>
        kout.cands = KeptBufferMin(kin.cands, kin.calendar_json,
                                   kin.participants, kin.rule.minutes, kin.tz)

\* busy 09:30-10:00 and 30 minutes: 08:30-09:00 touches the widened interval
\* and stays, 08:30-09:30 touches the busy interval itself and goes
C13_Witness ==
    /\ FDone("buffer") /\ kin.tz = "Asia/Seoul" /\ kin.rule.minutes = 30
    /\ kin.participants = <<"person_a", "person_b">>
    /\ kin.calendar_json["person_a"] =
           <<Event(NaiveText(At(Mon, 9, 30)), NaiveText(At(Mon, 10, 0)))>>
    /\ kin.cands = <<FCandidate(Mon, <<8, 30, 30>>, kin.tz),
                     FCandidate(Mon, <<8, 30, 60>>, kin.tz)>>
    /\ kout.cands = <<FCandidate(Mon, <<8, 30, 30>>, kin.tz)>>

InsideSome(c, windows, tz) ==
    \E n \in 1..Len(windows) :
        /\ IntervalStart(windows[n], tz) <= StartInstant(c)
        /\ EndInstant(c) <= IntervalEnd(windows[n], tz)
OverlapsSome(c, windows, tz) ==
    \E n \in 1..Len(windows) :
        /\ StartInstant(c) < IntervalEnd(windows[n], tz)
        /\ IntervalStart(windows[n], tz) < EndInstant(c)

KeptRequired(cands, windows, tz) ==
    LET Keep(c) == InsideSome(c, windows, tz)
    IN  SelectSeq(cands, Keep)
KeptBan(cands, windows, tz) ==
    LET Keep(c) == ~OverlapsSome(c, windows, tz)
    IN  SelectSeq(cands, Keep)
KeptDeadline(cands, deadline, tz) ==
    LET Keep(c) == StartInstant(c) <= parse_datetime(deadline, tz).utc
    IN  SelectSeq(cands, Keep)

----------------------------------------------------------------------------
(* The claims about tier 3, the ranking and the parser                     *)

ToSet(xs) == {xs[i] : i \in 1..Len(xs)}

\* join_room_availability has returned
RoomJoined == level = 3 /\ pc \in {"admit", "rank", "returned"}

\* the rooms whose capacity is at least the participant count
EligibleRooms ==
    LET rooms == world.sources.rooms_table
    IN  {rooms[i].room_id :
            i \in {n \in 1..Len(rooms) : rooms[n].capacity >= Len(person_ids)}}

\* the candidate overlaps none of the room's busy intervals
FreeIn(c, room_id) ==
    LET avail == world.sources.room_availability_json
    IN  room_id \in DOMAIN avail =>
            \A ev \in ToSet(avail[room_id]) :
                ~(/\ StartInstant(c) < IntervalEnd(ev, tz_str)
                  /\ IntervalStart(ev, tz_str) < EndInstant(c))

Triple(c, room_id) == [start |-> c.start, end |-> c.end, room_id |-> room_id]

\* C21: with k surviving time candidates and r rooms of capacity at least
\* the participant count, join_room_availability returns at most k * r
\* triples; (start, end, room_id) is returned if and only if (start, end) is
\* a surviving candidate, room_id an eligible room and the candidate overlaps
\* none of the room's busy intervals; a candidate yields one triple per free
\* eligible room.  In the pipeline, whose zones have one offset each.
C21_RoomJoin ==
    RoomJoined =>
        /\ Len(room_candidates) <= Len(filtered) * Cardinality(EligibleRooms)
        /\ ToSet(room_candidates) =
               {Triple(c, r) : <<c, r>> \in
                   {x \in ToSet(filtered) \X EligibleRooms : FreeIn(x[1], x[2])}}
        /\ \A c \in ToSet(filtered) :
               Cardinality({i \in 1..Len(room_candidates) :
                               /\ room_candidates[i].start = c.start
                               /\ room_candidates[i].end = c.end})
                   = Cardinality({r \in EligibleRooms : FreeIn(c, r)})

\* one candidate comes back with two rooms, another is busy in one of them
C21_Witness ==
    /\ RoomJoined
    /\ \E c \in ToSet(filtered) :
           Cardinality({r \in EligibleRooms : FreeIn(c, r)}) = 2
    /\ \E c \in ToSet(filtered) :
           /\ Triple(c, "room_2") \in ToSet(room_candidates)
           /\ Triple(c, "room_3") \notin ToSet(room_candidates)
    /\ "room_1" \notin EligibleRooms

\* the key sequence of the first thread that declares a sort_spec, or the
\* default
DeclaredKeys ==
    LET threads == IF instance.has_sources /\ instance.sources.has_comm_threads
                   THEN instance.sources.comm_threads ELSE <<>>
        declaring == {i \in 1..Len(threads) :
                         /\ threads[i].has_tags
                         /\ threads[i].thread_tags.has_sort_spec}
    IN  IF declaring = {} THEN <<"start", "end", "room_id">>
        ELSE threads[CHOOSE i \in declaring : \A j \in declaring : i <= j]
                 .thread_tags.sort_keys

\* the value a triple is ranked by under one key: instants for start and
\* end, the place of the string among the room ids otherwise
KeyValue(key, t) ==
    CASE key = "start" -> StartInstant(t)
      [] key = "end" -> EndInstant(t)
      [] key = "room_id" -> RoomRank(t.room_id)
      [] OTHER -> 0

\* the tie-break: (start, end, room_id) as strings
TupleBefore(a, b) ==
    \/ TextLess(a.start, b.start)
    \/ a.start = b.start /\ TextLess(a.end, b.end)
    \/ a.start = b.start /\ a.end = b.end
         /\ RoomRank(a.room_id) < RoomRank(b.room_id)

\* a stands before b under the key sequence followed by the tie-break
RankedBefore(a, b, keys) ==
    \E i \in 1..(Len(keys) + 1) :
        /\ \A j \in 1..(i - 1) : KeyValue(keys[j], a) = KeyValue(keys[j], b)
        /\ IF i <= Len(keys)
           THEN KeyValue(keys[i], a) < KeyValue(keys[i], b)
           ELSE TupleBefore(a, b)

TierThreeResult == level = 3 /\ Returned /\ ret.kind = "result"

\* C22: the triples of a tier-3 result are the first 3 of the joined triples
\* under the order given by the declared key sequence (default start, end,
\* room_id; start and end as instants, other keys as strings) followed by
\* the tuple (start, end, room_id); the order is total on the joined
\* triples, so the result is fixed by the set of triples alone.  In the
\* pipeline, whose zones have one offset each.
C22_TierThreeRanking ==
    TierThreeResult =>
        LET out == ret.result.feasible_candidates
            joined == ToSet(room_candidates)
        IN  /\ Len(out) = 3
            /\ ToSet(out) \subseteq joined
            /\ \A i \in 1..2 : RankedBefore(out[i], out[i + 1], DeclaredKeys)
            /\ \A t \in joined \ ToSet(out) :
                   RankedBefore(out[3], t, DeclaredKeys)
            /\ \A a, b \in joined :
                   a # b => (RankedBefore(a, b, DeclaredKeys)
                                 \/ RankedBefore(b, a, DeclaredKeys))

\* a thread asks for (room_id, start): the three earliest slots of one room
\* come out, ahead of an equally early slot of the other room
C22_Witness ==
    /\ TierThreeResult
    /\ DeclaredKeys = <<"room_id", "start">>
    /\ Len(room_candidates) > 3
    /\ LET out == ret.result.feasible_candidates
       IN  /\ out[1].room_id = "room_2" /\ out[3].room_id = "room_2"
           /\ StartInstant(out[1]) < StartInstant(out[3])
           /\ Triple(out[1], "room_3") \in ToSet(room_candidates)
           /\ room_candidates[1].room_id = "room_3"

\* the candidates the policy rules leave of the base candidates
RECURSIVE AfterRules(_, _)
AfterRules(cands, rules) ==
    IF rules = <<>> THEN cands
    ELSE AfterRules(ApplyRule(cands, Head(rules), world, slots_for_constraints),
                    Tail(rules))

\* the threads that carry evidence, and all windows of one kind they declare
TaggedThreads ==
    {t \in ToSet(instance.sources.comm_threads) : t.has_tags}
RECURSIVE Concat(_)
Concat(xss) == IF xss = <<>> THEN <<>> ELSE Head(xss) \o Concat(Tail(xss))
AllRequired ==
    Concat([i \in 1..Len(instance.sources.comm_threads) |->
               LET t == instance.sources.comm_threads[i]
               IN  IF t.has_tags /\ t.thread_tags.has_required
                   THEN t.thread_tags.required_windows ELSE <<>>])
AllBan ==
    Concat([i \in 1..Len(instance.sources.comm_threads) |->
               LET t == instance.sources.comm_threads[i]
               IN  IF t.has_tags /\ t.thread_tags.has_ban
                   THEN t.thread_tags.ban_windows ELSE <<>>])

\* apply_level3_constraints has returned after reading the threads
EvidenceRead ==
    /\ level = 3 /\ pc \in {"room_join", "admit", "rank", "returned"}
    /\ instance.has_sources /\ instance.sources.has_comm_threads

\* the deadlines and the ban windows, which add up over the threads
MeetsDeadlines(c) ==
    \A t \in TaggedThreads :
        t.thread_tags.has_deadline =>
            StartInstant(c) <= parse_datetime(t.thread_tags.deadline, tz_str).utc
AvoidsBans(c) == ~OverlapsSome(c, AllBan, tz_str)

\* C25 as claimed: of the candidates the policy rules left, the survivors
\* are those that meet the deadlines, overlap no ban window of any thread,
\* and lie inside at least one required window declared by any thread.
C25_Claimed ==
    EvidenceRead =>
        LET Keep(c) ==
                /\ MeetsDeadlines(c) /\ AvoidsBans(c)
                /\ (\E t \in TaggedThreads : t.thread_tags.has_required)
                       => InsideSome(c, AllRequired, tz_str)
        IN  filtered = SelectSeq(AfterRules(base_candidates, policy_rules), Keep)

\* C25: the threads' bundles are applied one after the other: a candidate
\* survives if and only if it overlaps no ban window of any thread and, for
\* every thread that declares required windows, lies inside at least one
\* window of that thread.
C25_EvidencePerThread ==
    EvidenceRead =>
        LET Keep(c) ==
                /\ MeetsDeadlines(c) /\ AvoidsBans(c)
                /\ \A t \in TaggedThreads :
                       t.thread_tags.has_required =>
                           InsideSome(c, t.thread_tags.required_windows, tz_str)
        IN  filtered = SelectSeq(AfterRules(base_candidates, policy_rules), Keep)

\* two threads declare required windows; a candidate inside a window of one
\* of them and outside the windows of the other is dropped
C25_Witness ==
    /\ EvidenceRead
    /\ Cardinality({t \in TaggedThreads : t.thread_tags.has_required}) = 2
    /\ filtered # <<>>
    /\ \E c \in ToSet(AfterRules(base_candidates, policy_rules)) :
           /\ MeetsDeadlines(c) /\ AvoidsBans(c)
           /\ InsideSome(c, AllRequired, tz_str)
           /\ c \notin ToSet(filtered)

\* the participant directory: its names and its ids
DirectoryNames == {r.person_name : r \in ToSet(world.sources.people_table)}
DirectoryIds == {r.person_id : r \in ToSet(world.sources.people_table)}

\* map_participant_names_to_ids has been called
MapActed == level = 3 /\ slotsRef # "none" /\ pc \notin {"idle", "resolve", "map"}

\* C26: at tier 3 every participant reference is mapped to an id through the
\* directory and process_instance fails when a reference matches no entry of
\* it: every id used for the calendar lookup, the room capacity and the
\* explanation keys of a result is a person_id of the directory.
C26_ParticipantResolution ==
    MapActed =>
        /\ (\E ref \in ToSet(InstSlots.participants) :
                ref \notin DirectoryNames \cup DirectoryIds)
               => (pc = "raised" /\ ret.error = "UnknownParticipant")
        /\ \A i \in 1..Len(person_ids) : person_ids[i] \in DirectoryIds
        /\ ret.kind = "result" =>
               \A k \in ToSet(ret.result.explanation_keys) :
                   k.source = "calendar_json" => k.key \in DirectoryIds

----------------------------------------------------------------------------
(* parse_datetime and select_top_n of src/oracle/oracle_core.py, and the   *)
(* room join and ranking of src/oracle/level3_oracle.py, applied to drawn  *)
(* time strings and candidate lists, also of a zone whose offset changes   *)

\* candidates in a list handed to select_top_n
MaxRanked == 3

TZones == {"Asia/Seoul", "America/Bogota", "America/New_York"}
\* to_iso_with_tz: dt.astimezone(ZoneInfo(tz)).isoformat()
Rendered(utc, tz) == OffsetText(utc + UtcOffset(tz, utc), UtcOffset(tz, utc))

\* the candidate enumerate_candidates renders for the instant utc
TCandidate(utc, duration_min, tz) ==
    [start |-> Rendered(utc, tz), end |-> Rendered(utc + duration_min, tz)]

\* four grid points in a row: Monday 09:00 of the zone, and in New York the
\* half hour before the change of offset
TFirst(tz) ==
    IF tz = "America/New_York" THEN FallBack - 30 ELSE At(Mon, 9, 0) - ZoneInfo(tz)
TPool(tz) == {TCandidate(TFirst(tz) + 15 * k, 30, tz) : k \in 0..3}
\* lists of distinct candidates in any order
TLists(tz) ==
    {xs \in SeqsUpTo(TPool(tz), MaxRanked) :
        \A i, j \in 1..Len(xs) : i # j => xs[i] # xs[j]}

\* time strings: bare, +09:00, +00:00, -05:00, Z, and without the 'T'
TWalls == {At(Mon, 9, 0), At(Mon, 23, 30)}
TTexts ==
    UNION {{NaiveText(w), OffsetText(w, 540), OffsetText(w, 0),
            OffsetText(w, -300), ZText(w), NoSepText(w)} : w \in TWalls}
TParseZones == {"Asia/Seoul", "UTC", "America/Bogota"}

\* room busy intervals: none, the third slot of the pool written with Z,
\* and the second and third slot written as wall clock of the zone
TAvailabilities(tz) ==
    {("room_3" :> <<>>),
     ("room_2" :> <<Event(ZText(TFirst(tz) + 30), ZText(TFirst(tz) + 60))>>),
     ("room_2" :> <<Event(NaiveText(TFirst(tz) + 15 + UtcOffset(tz, TFirst(tz))),
                          NaiveText(TFirst(tz) + 60 + UtcOffset(tz, TFirst(tz))))>>)}
\* the mapped participants of the join
TPersonIds == <<"person_a", "person_b">>

\* joined triples of the pool in any order, one more than are emitted
TTriples(tz) ==
    {[start |-> c.start, end |-> c.end, room_id |-> r] :
        c \in TPool(tz), r \in {"room_2", "room_3"}}
TTripleLists(tz) ==
    {xs \in SeqsUpTo(TTriples(tz), MaxRanked + 1) :
        \A i, j \in 1..Len(xs) : i # j => xs[i] # xs[j]}
TSortKeys == {DefaultSortKeys, <<"room_id", "start">>}

TProblem(prob, tz, text, cands, n, room_availability, sort_keys) ==
    [prob |-> prob, tz |-> tz, text |-> text, cands |-> cands, n |-> n,
     room_availability |-> room_availability, sort_keys |-> sort_keys]
TNoRooms == ("room_3" :> <<>>)
TOut(dt, cands, raised) == [dt |-> dt, cands |-> cands, raised |-> raised]
TNoDt == Dt(0, 0)

TextProblems ==
    {TProblem("parse", tz, text, <<>>, 0, TNoRooms, <<>>) :
        tz \in TParseZones, text \in TTexts}
    \cup UNION {{TProblem("rank", tz, NaiveText(0), cands, n, TNoRooms, <<>>) :
                    cands \in TLists(tz), n \in 1..MaxRanked} : tz \in TZones}
    \cup UNION {{TProblem("join", tz, NaiveText(0), cands, 3, avail, <<>>) :
                    cands \in TLists(tz), avail \in TAvailabilities(tz)} :
                 tz \in TZones}
    \cup UNION {{TProblem("rank3", tz, NaiveText(0), cands, 3, TNoRooms, keys) :
                    cands \in TTripleLists(tz), keys \in TSortKeys} :
                 tz \in TZones}

TInit ==
    /\ kpc = "ready"
    /\ kin \in TextProblems
    /\ kout = TOut(TNoDt, <<>>, FALSE)

\* parse_datetime(dt_str, tz_str) applied to a drawn string and zone
TParse ==
    /\ kpc = "ready" /\ kin.prob = "parse"
    /\ kout' = IF ParseFails(kin.text) THEN TOut(TNoDt, <<>>, TRUE)
               ELSE TOut(parse_datetime(kin.text, kin.tz), <<>>, FALSE)
    /\ kpc' = "done"
    /\ UNCHANGED kin

\* select_top_n(candidates, n) applied to a drawn list
TSelect ==
    /\ kpc = "ready" /\ kin.prob = "rank"
    /\ kout' = TOut(TNoDt, select_top_n(kin.cands, kin.n), FALSE)
    /\ kpc' = "done"
    /\ UNCHANGED kin

\* level3_oracle.process_instance, lines 352-356: the rooms that hold the
\* participants, joined with the drawn candidates
TJoin ==
    /\ kpc = "ready" /\ kin.prob = "join"
    /\ LET valid_room_ids == filter_rooms_by_capacity(RoomsTable, Len(TPersonIds))
       IN  kout' = TOut(TNoDt,
                        join_room_availability(kin.room_availability, kin.cands,
                                               valid_room_ids, kin.tz),
                        FALSE)
    /\ kpc' = "done"
    /\ UNCHANGED kin

\* level3_oracle.process_instance, lines 376-383: the drawn triples sorted
\* by the sort keys, and the first three taken
TSort3 ==
    /\ kpc = "ready" /\ kin.prob = "rank3"
    /\ kout' = TOut(TNoDt,
                    Slice(sort_candidates_level3(kin.cands, kin.sort_keys, kin.tz),
                          kin.n),
                    FALSE)
    /\ kpc' = "done"
    /\ UNCHANGED kin

TextInit == TInit /\ PIdle
TextNext ==
    \/ TParse /\ UNCHANGED pvars
    \/ TSelect /\ UNCHANGED pvars
    \/ TJoin /\ UNCHANGED pvars
    \/ TSort3 /\ UNCHANGED pvars
TextSpec == TextInit /\ [][TextNext]_vars

TDone(prob) == kpc = "done" /\ kin.prob = prob

\* (start instant, end instant) of a before or equal to that of b
InstantsInOrder(a, b) ==
    \/ StartInstant(a) < StartInstant(b)
    \/ StartInstant(a) = StartInstant(b) /\ EndInstant(a) <= EndInstant(b)

\* C23: select_top_n returns the first n candidates in ascending order of
\* (start instant, end instant): the selected list is sorted ascending, and
\* no candidate left out starts earlier than a selected one.
C23_TierOneRanking ==
    TDone("rank") =>
        LET out == kout.cands
        IN  /\ Len(out) = (IF kin.n < Len(kin.cands) THEN kin.n ELSE Len(kin.cands))
            /\ ToSet(out) \subseteq ToSet(kin.cands)
            /\ \A i \in 1..(Len(out) - 1) : InstantsInOrder(out[i], out[i + 1])
            /\ \A c \in ToSet(kin.cands) \ ToSet(out) :
                   \A x \in ToSet(out) : StartInstant(x) <= StartInstant(c)

\* C24: parse_datetime(text, tz) fails for a text without the date/time
\* separator; otherwise it returns the instant given by the text's own UTC
\* offset when the text carries one (positive, negative or Z), and the
\* text's wall-clock time read in tz when it carries none.
C24_TimestampParsing ==
    TDone("parse") =>
        IF kin.text.kind = "nosep" THEN kout.raised
        ELSE /\ ~kout.raised
             /\ kout.dt.utc = (IF kin.text.kind \in {"offset", "Z"}
                               THEN kin.text.wall - kin.text.off
                               ELSE kin.text.wall - ZoneInfo(kin.tz))

\* the rooms of the table that hold the participants of the join
TEligible ==
    {RoomsTable[i].room_id :
        i \in {k \in 1..Len(RoomsTable) : RoomsTable[k].capacity >= Len(TPersonIds)}}

\* the drawn candidate overlaps none of the room's busy intervals
TFreeIn(c, room_id) ==
    room_id \in DOMAIN kin.room_availability =>
        \A ev \in ToSet(kin.room_availability[room_id]) :
            ~(/\ StartInstant(c) < IntervalEnd(ev, kin.tz)
              /\ IntervalStart(ev, kin.tz) < EndInstant(c))

\* C21: with k surviving time candidates and r rooms of capacity at least
\* the participant count, join_room_availability returns at most k * r
\* triples; (start, end, room_id) is returned if and only if (start, end) is
\* a surviving candidate, room_id an eligible room and the candidate overlaps
\* none of the room's busy intervals; a candidate yields one triple per free
\* eligible room.  Stated for candidates of any zone, as instants.
C21_RoomJoinAcrossOffsets ==
    TDone("join") =>
        LET out == kout.cands
            survivors == ToSet(kin.cands)
        IN  /\ Len(out) <= Len(kin.cands) * Cardinality(TEligible)
            /\ ToSet(out) =
                   {Triple(x[1], x[2]) :
                       x \in {y \in survivors \X TEligible : TFreeIn(y[1], y[2])}}
            /\ \A c \in survivors :
                   Cardinality({i \in 1..Len(out) :
                                   out[i].start = c.start /\ out[i].end = c.end})
                       = Cardinality({r \in TEligible : TFreeIn(c, r)})

\* C22: the emitted triples are the first 3 of the joined triples under the
\* order given by the key sequence (default start, end, room_id; start and
\* end as instants, other keys as strings) followed by the tuple (start,
\* end, room_id); the order is total on the joined triples.  Stated for
\* triples of any zone.
C22_RankingAcrossOffsets ==
    TDone("rank3") =>
        LET out == kout.cands
            joined == ToSet(kin.cands)
            keys == kin.sort_keys
        IN  /\ Len(out) = (IF Len(kin.cands) < 3 THEN Len(kin.cands) ELSE 3)
            /\ ToSet(out) \subseteq joined
            /\ \A i \in 1..(Len(out) - 1) : RankedBefore(out[i], out[i + 1], keys)
            /\ \A t \in joined \ ToSet(out) :
                   \A x \in ToSet(out) : RankedBefore(x, t, keys)
            /\ \A a, b \in joined :
                   a # b => (RankedBefore(a, b, keys) \/ RankedBefore(b, a, keys))

----------------------------------------------------------------------------
(* The base enumeration on drawn calendars                                 *)

\* the busy intervals of the participants that have a calendar, as pairs of
\* instants
BusyOf(calendar_json, participants, tz) ==
    UNION {{<<IntervalStart(ev, tz), IntervalEnd(ev, tz)>> :
               ev \in ToSet(calendar_json[p])} :
           p \in ToSet(participants) \cap DOMAIN calendar_json}

\* the starts s of the slots [s, s + duration) on the 15-minute grid of the
\* zone that lie in the time window and overlap no busy interval
ExactSlots ==
    LET ws == IntervalStart(kin.time_window, kin.tz)
        we == IntervalEnd(kin.time_window, kin.tz)
        busy == BusyOf(kin.calendar_json, kin.participants, kin.tz)
    IN  {s \in ws..we :
            /\ (s + ZoneInfo(kin.tz)) % 15 = 0
            /\ s + kin.duration_min <= we
            /\ \A b \in busy : ~(s < b[2] /\ b[1] < s + kin.duration_min)}

\* C28: on the 15-minute grid the candidates that come out of gathering the
\* busy intervals, computing the free windows and enumerating are exactly
\* the slots [s, s + duration) with s on the grid, time_window.start <= s,
\* s + duration <= time_window.end and no overlap with a busy interval of a
\* participant: none is missing, none comes twice, none overlaps a busy
\* interval.
C28_BaseEnumerationExact ==
    KBaseDone =>
        LET cands == kout.cands
        IN  /\ {StartInstant(cands[i]) : i \in 1..Len(cands)} = ExactSlots
            /\ \A i \in 1..Len(cands) :
                   EndInstant(cands[i]) = StartInstant(cands[i]) + kin.duration_min
            /\ \A i, j \in 1..Len(cands) : i # j => cands[i] # cands[j]
            /\ \A i \in 1..Len(cands) :
                   \A b \in BusyOf(kin.calendar_json, kin.participants, kin.tz) :
                       ~(/\ StartInstant(cands[i]) < b[2]
                         /\ b[1] < EndInstant(cands[i]))

\* two participants with a busy interval each, one of them ending off the
\* grid, in a window that starts off the grid: the slots come from more than
\* one free window and the first starts on the next grid point
C28_Witness ==
    /\ KBaseDone
    /\ kin.participants = <<"person_a", "person_b">>
    /\ Len(kin.calendar_json["person_a"]) = 2
    /\ Len(kin.calendar_json["person_b"]) = 1
    /\ kin.time_window.start = NaiveText(At(Mon, 9, 10))
    /\ Len(kout.free) >= 2
    /\ Len(kout.cands) >= 1
    /\ \E i \in 1..Len(kout.free) : Minute(kout.free[i][1]) % 15 # 0

\* an eligible room has a busy interval with a malformed timestamp
MalformedEligibleRoom ==
    LET avail == world.sources.room_availability_json
    IN  \E r \in EligibleRooms \cap DOMAIN avail :
            \E ev \in ToSet(avail[r]) : ParseFails(ev.start) \/ ParseFails(ev.end)

\* C30: at tier 3, when a busy interval of a room of capacity at least the
\* participant count carries a malformed timestamp, process_instance fails
\* with an error: the instance is neither accepted nor discarded, whatever
\* the number of time candidates that survived filtering.
C30_MalformedRoomIsFatal ==
    (level = 3 /\ pc \notin {"resolve", "map"} /\ MalformedEligibleRoom) =>
        /\ pc \notin {"admit", "rank", "returned"}
        /\ ret.kind \notin {"result", "discarded"}

----------------------------------------------------------------------------
(* The generation driver: run_generation of src/generate/gen_level1.py,    *)
(* gen_level2.py and gen_level3.py.  kin holds the call's arguments, kout  *)
(* the locals of the loop, kpc the position in the function.  The oracle's *)
(* verdict on a generated instance is left open.                           *)

\* the largest num_instances of a drawn call
MaxInstances == 3

DNoRet == <<>>
DLocals(valid_instances, oracle_results, attempts, returned) ==
    [valid_instances |-> valid_instances, oracle_results |-> oracle_results,
     attempts |-> attempts, returned |-> returned]

DInit ==
    /\ kpc = "loop"
    /\ kin \in {[level |-> lvl, num_instances |-> n] :
                   lvl \in Levels, n \in 0..MaxInstances}
    /\ kout = DLocals(<<>>, <<>>, 0, DNoRet)

max_attempts == kin.num_instances * 5

\* the condition of the while loop
LoopCondition ==
    /\ Len(kout.valid_instances) < kin.num_instances
    /\ kout.attempts < max_attempts

\* the index handed to generate_instance; the variant numbers by attempts
NextIndexByAttempts == kout.attempts
NextIndex == Len(kout.valid_instances)

\* generate_instance(world, idx, suffix): the id ends with the index
generate_instance(lvl, idx) == [instance_id |-> [level |-> lvl, index |-> idx]]

\* what process_instance returns for an accepted instance
OracleResult(inst) == [instance_id |-> inst.instance_id]

\* one iteration in which the oracle returns a result
DAccept ==
    /\ kpc = "loop" /\ LoopCondition
    /\ LET inst == generate_instance(kin.level, NextIndex)
       IN  kout' = [kout EXCEPT
                      !.valid_instances = Append(@, inst),
                      !.oracle_results = Append(@, OracleResult(inst)),
                      !.attempts = @ + 1]
    /\ UNCHANGED <<kpc, kin>>

\* one iteration in which the oracle returns None
DDiscard ==
    /\ kpc = "loop" /\ LoopCondition
    /\ kout' = [kout EXCEPT !.attempts = @ + 1]
    /\ UNCHANGED <<kpc, kin>>

\* the loop is left and the two files are written
DLeave ==
    /\ kpc = "loop" /\ ~LoopCondition
    /\ kpc' = "summary"
    /\ UNCHANGED <<kin, kout>>

\* the divisor of the discard rate: attempts at level 1, max(attempts, 1) at
\* levels 2 and 3
RateDivisor ==
    IF kin.level = 1 \/ kout.attempts >= 1 THEN kout.attempts ELSE 1

\* the summary is printed and (valid count, attempts) returned
DSummary ==
    /\ kpc = "summary"
    /\ IF RateDivisor = 0
       THEN kpc' = "raised" /\ UNCHANGED kout
       ELSE /\ kpc' = "returned"
            /\ kout' = [kout EXCEPT
                          !.returned = <<Len(kout.valid_instances), kout.attempts>>]
    /\ UNCHANGED kin

DriverInit == DInit /\ PIdle
DriverNext ==
    \/ DAccept /\ UNCHANGED pvars
    \/ DDiscard /\ UNCHANGED pvars
    \/ DLeave /\ UNCHANGED pvars
    \/ DSummary /\ UNCHANGED pvars
DriverSpec == DriverInit /\ [][DriverNext]_vars /\ WF_vars(DriverNext)

\* what holds of the loop's counters in every state of a call
RetryBounds ==
    /\ kout.attempts <= 5 * kin.num_instances
    /\ Len(kout.valid_instances) <= kin.num_instances
    /\ kpc # "loop" =>
           \/ Len(kout.valid_instances) = kin.num_instances
           \/ kout.attempts = 5 * kin.num_instances
    /\ kpc = "returned" =>
           kout.returned = <<Len(kout.valid_instances), kout.attempts>>

\* C27: for every num_instances >= 0 and whatever the oracle accepts or
\* discards, run_generation makes at most 5 * num_instances oracle calls,
\* never holds more than num_instances valid instances, leaves the loop with
\* exactly num_instances valid instances or with attempts = 5 *
\* num_instances, and then returns (valid count, attempts).
C27_RetryLoopTerminates == []RetryBounds /\ <>(kpc = "returned")

\* the two lists of the driver in step: equal lengths, the i-th result
\* carries the i-th instance's id, the ids end with 0 .. len-1 in order
ListsInStep ==
    /\ Len(kout.valid_instances) = Len(kout.oracle_results)
    /\ \A i \in 1..Len(kout.valid_instances) :
           /\ kout.oracle_results[i].instance_id
                  = kout.valid_instances[i].instance_id
           /\ kout.valid_instances[i].instance_id.index = i - 1
    /\ \A i, j \in 1..Len(kout.valid_instances) :
           i # j => kout.valid_instances[i].instance_id
                        # kout.valid_instances[j].instance_id
    /\ kout.attempts >= Len(kout.valid_instances)

\* an iteration either appends one instance and its result, or leaves both
\* lists as they are
IterationKeepsLists ==
    kout'.attempts # kout.attempts =>
        \/ /\ kout'.valid_instances = kout.valid_instances
           /\ kout'.oracle_results = kout.oracle_results
        \/ /\ Len(kout'.valid_instances) = Len(kout.valid_instances) + 1
           /\ Len(kout'.oracle_results) = Len(kout.oracle_results) + 1
           /\ SubSeq(kout'.valid_instances, 1, Len(kout.valid_instances))
                  = kout.valid_instances

\* C29: at every iteration of run_generation's loop valid_instances and
\* oracle_results have the same length, the i-th result carries the id of
\* the i-th valid instance, the accepted ids are pairwise distinct with
\* index suffixes 0 .. len-1 in order, a discarded instance is appended to
\* neither list, and attempts >= len(valid_instances).
C29_DriverBookkeeping == []ListsInStep /\ [][IterationKeepsLists]_vars

\* two instances were accepted with a discard in between
C29_Witness ==
    /\ kpc = "returned"
    /\ Len(kout.valid_instances) = 2
    /\ kout.attempts = 4
    /\ kout.valid_instances[2].instance_id.index = 1

====
